---- MODULE Spec2Model ----
(***************************************************************************)
(* Model of the Web3Mint issuance registry (ERC721URIStorage, Ownable,     *)
(* ReentrancyGuard) of ETH-NFT-Maker.  Every transaction is atomic: it     *)
(* either commits all its writes and its logs, or reverts and leaves the   *)
(* registry and all balances as they were.  Amounts are counted in units   *)
(* of 0.001 ether.                                                         *)
(***************************************************************************)
EXTENDS Integers, Sequences, FiniteSets, TLC

\* ---------------------------------------------------------------- bounds
\* MAX_SUPPLY is 10000 in the contract; the model scales it down.
MaxSupplyBound == 2
\* number of externally owned accounts besides the deployer
NumUsers == 1
\* funds every account holds when the contract is deployed
InitialFunds == 1
\* largest price the owner sets with updateMintPrice
MaxPrice == 1
\* largest block timestamp
MaxTime == 2

\* ------------------------------------------------------------- constants
\* address(0)
ZERO == 0
\* the deployer, msg.sender of the constructor
DEPLOYER == 1
MAX_SUPPLY == MaxSupplyBound
\* 0.001 ether
InitialMintPrice == 1

Accounts == DEPLOYER..(DEPLOYER + NumUsers)
\* all the funds there are: the model ignores gas, so they are conserved
TotalFunds == InitialFunds * (NumUsers + 1)
TokenIds == 1..MAX_SUPPLY
\* the keys of the mappings the model keeps: the ids the cap allows and two
\* beyond, which must stay unused
StorageIds == 1..(MAX_SUPPLY + 2)

\* argument values the callers choose from
Names == {"", "Art"}
Descriptions == {"", "desc"}
IpfsHashes == {"", "QmHash"}
MetadataURIs == {"", "ipfs://meta"}

VARIABLES
    _tokenIdCounter,  \* next token id to issue
    mintPrice,        \* fee of a paid mint
    mintingEnabled,   \* enable / disable switch
    nftInfo,          \* tokenId -> NFTInfo
    _owners,          \* ERC721: tokenId -> owner, ZERO when not minted
    _tokenURIs,       \* ERC721URIStorage: tokenId -> uri
    contractBalance,  \* address(this).balance
    balances,         \* account -> funds
    blockTimestamp,   \* block.timestamp of the block being built
    lastTx,           \* the latest transaction sent to the registry
    receipt           \* its receipt: status and logs

registry == <<_tokenIdCounter, mintPrice, mintingEnabled, nftInfo, _owners,
              _tokenURIs, contractBalance, balances>>
vars == <<_tokenIdCounter, mintPrice, mintingEnabled, nftInfo, _owners,
          _tokenURIs, contractBalance, balances, blockTimestamp, lastTx, receipt>>

\* the zero value of struct NFTInfo
EmptyNFTInfo == [name |-> "", description |-> "", imageURI |-> "",
                 timestamp |-> 0, minter |-> ZERO]

\* Ownable.owner(): set by the constructor, never transferred by this code
owner == DEPLOYER

\* ------------------------------------------------------ pure functions
Digits == <<"0", "1", "2", "3", "4", "5", "6", "7", "8", "9">>
HexAlphabet == <<"0", "1", "2", "3", "4", "5", "6", "7", "8", "9",
                 "a", "b", "c", "d", "e", "f">>

RECURSIVE DecimalDigits(_)
DecimalDigits(value) ==
    IF value = 0 THEN ""
    ELSE DecimalDigits(value \div 10) \o Digits[(value % 10) + 1]

_uint256ToString(value) == IF value = 0 THEN "0" ELSE DecimalDigits(value)

RECURSIVE HexBytes(_, _)
\* the i lowest bytes of value, two hex characters each, high byte first
HexBytes(value, i) ==
    IF i = 0 THEN ""
    ELSE HexBytes(value \div 256, i - 1)
         \o HexAlphabet[((value % 256) \div 16) + 1]
         \o HexAlphabet[(value % 16) + 1]

_addressToString(addr) == "0x" \o HexBytes(addr, 20)

\* Base64.encode: an injective text encoding; the model keeps the payload
\* readable and marks it as encoded.
Base64encode(data) == IF data = "" THEN "" ELSE "b64<" \o data \o ">"

Base64encodeJSON(json) == "data:application/json;base64," \o Base64encode(json)

_generateMetadataURI(info, tokenId) ==
    Base64encodeJSON(
        "{\"name\": \"" \o info.name \o "\","
        \o "\"description\": \"" \o info.description \o "\","
        \o "\"image\": \"" \o info.imageURI \o "\","
        \o "\"attributes\": ["
        \o "{\"trait_type\": \"Minter\", \"value\": \"" \o _addressToString(info.minter) \o "\"},"
        \o "{\"trait_type\": \"Mint Timestamp\", \"value\": " \o _uint256ToString(info.timestamp) \o "},"
        \o "{\"trait_type\": \"Token ID\", \"value\": " \o _uint256ToString(tokenId) \o "}"
        \o "]}")

ImageURI(ipfsHash) == "https://ipfs.io/ipfs/" \o ipfsHash

totalSupply == _tokenIdCounter - 1
getCurrentTokenId == _tokenIdCounter
getContractBalance == contractBalance

\* ------------------------------------------------------ modifiers, checks
onlyOwnerAnyone(sender) == TRUE
onlyOwner(sender) == sender = owner

SupplyExceededOffByOne(counter) == counter > MAX_SUPPLY + 1
SupplyExceeded(counter) == counter > MAX_SUPPLY

UnderpaidNever(value, price) == FALSE
Underpaid(value, price) == value < price

IsEmpty(s) == Len(s) = 0

\* _tokenIdCounter++
NextCounterStuck(counter) == counter
NextCounterSkips(counter) == counter + 2
NextCounter(counter) == counter + 1

\* ERC721._safeMint(to, tokenId): "" when the mint goes through
SafeMintError(to, tokenId) ==
    IF to = ZERO THEN "ERC721InvalidReceiver"
    ELSE IF _owners[tokenId] # ZERO THEN "ERC721InvalidSender"
    ELSE ""

\* ------------------------------------------------------------- events
Transfer(from, to, tokenId) ==
    [event |-> "Transfer", from |-> from, to |-> to, tokenId |-> tokenId]
MetadataUpdate(tokenId) == [event |-> "MetadataUpdate", tokenId |-> tokenId]
NFTMinted(tokenId, minter, imageURI, metadataURI) ==
    [event |-> "NFTMinted", tokenId |-> tokenId, minter |-> minter,
     imageURI |-> imageURI, metadataURI |-> metadataURI]
IPFSNFTMinted(tokenId, minter, ipfsHash) ==
    [event |-> "IPFSNFTMinted", tokenId |-> tokenId, minter |-> minter,
     ipfsHash |-> ipfsHash]
MintingToggled(enabled) == [event |-> "MintingToggled", enabled |-> enabled]
MintPriceUpdated(newPrice) == [event |-> "MintPriceUpdated", newPrice |-> newPrice]

\* ------------------------------------------------------- transactions
\* what the chain records of a call: the function, msg.sender, msg.value and
\* the recipient of the token (ZERO for a call that issues none)
Tx(fn, sender, value, to) ==
    [fn |-> fn, sender |-> sender, value |-> value, to |-> to]

\* a reverted transaction: nothing is written, the value goes back
Revert(error) ==
    /\ receipt' = [status |-> 0, error |-> error, logs |-> <<>>]
    /\ UNCHANGED registry

Success(logs) == receipt' = [status |-> 1, error |-> "", logs |-> logs]

PayFeeOnly(sender, value) ==
    /\ contractBalance' = contractBalance + mintPrice
    /\ balances' = [balances EXCEPT ![sender] = @ - mintPrice]

\* the value of a payable call moves from the sender to the contract
Pay(sender, value) ==
    /\ contractBalance' = contractBalance + value
    /\ balances' = [balances EXCEPT ![sender] = @ - value]

Init ==
    /\ _tokenIdCounter = 1
    /\ mintPrice = InitialMintPrice
    /\ mintingEnabled = TRUE
    /\ nftInfo = [t \in StorageIds |-> EmptyNFTInfo]
    /\ _owners = [t \in StorageIds |-> ZERO]
    /\ _tokenURIs = [t \in StorageIds |-> ""]
    /\ contractBalance = 0
    /\ balances = [a \in Accounts |-> InitialFunds]
    /\ blockTimestamp = 1
    /\ lastTx = Tx("constructor", DEPLOYER, 0, ZERO)
    /\ receipt = [status |-> 1, error |-> "", logs |-> <<>>]

makeAnEpicNFTError(sender, value, metadataURI) ==
    IF ~mintingEnabled THEN "MintingDisabled"
    ELSE IF SupplyExceeded(_tokenIdCounter) THEN "MaxSupplyExceeded"
    ELSE IF Underpaid(value, mintPrice) THEN "InsufficientPayment"
    ELSE IF IsEmpty(metadataURI) THEN "InvalidTokenURI"
    ELSE SafeMintError(sender, _tokenIdCounter)

makeAnEpicNFTNoOwner(sender, value, metadataURI) ==
    LET tokenId == _tokenIdCounter
        error == makeAnEpicNFTError(sender, value, metadataURI)
    IN  /\ value <= balances[sender]
        /\ lastTx' = Tx("makeAnEpicNFT", sender, value, sender)
        /\ UNCHANGED blockTimestamp
        /\ IF error # "" THEN Revert(error)
           ELSE /\ Pay(sender, value)
                /\ _tokenURIs' = [_tokenURIs EXCEPT ![tokenId] = metadataURI]
                /\ _tokenIdCounter' = NextCounter(_tokenIdCounter)
                /\ Success(<<Transfer(ZERO, sender, tokenId),
                             MetadataUpdate(tokenId),
                             NFTMinted(tokenId, sender, metadataURI, metadataURI)>>)
                /\ UNCHANGED <<mintPrice, mintingEnabled, nftInfo, _owners>>

makeAnEpicNFT(sender, value, metadataURI) ==
    LET tokenId == _tokenIdCounter
        error == makeAnEpicNFTError(sender, value, metadataURI)
    IN  /\ value <= balances[sender]
        /\ lastTx' = Tx("makeAnEpicNFT", sender, value, sender)
        /\ UNCHANGED blockTimestamp
        /\ IF error # "" THEN Revert(error)
           ELSE /\ Pay(sender, value)
                /\ _owners' = [_owners EXCEPT ![tokenId] = sender]
                /\ _tokenURIs' = [_tokenURIs EXCEPT ![tokenId] = metadataURI]
                /\ _tokenIdCounter' = NextCounter(_tokenIdCounter)
                /\ Success(<<Transfer(ZERO, sender, tokenId),
                             MetadataUpdate(tokenId),
                             NFTMinted(tokenId, sender, metadataURI, metadataURI)>>)
                /\ UNCHANGED <<mintPrice, mintingEnabled, nftInfo>>

toggleMintingWipes(sender, enabled) ==
    /\ lastTx' = Tx("toggleMinting", sender, 0, ZERO)
    /\ UNCHANGED blockTimestamp
    /\ IF ~onlyOwner(sender) THEN Revert("OwnableUnauthorizedAccount")
       ELSE /\ mintingEnabled' = enabled
            /\ nftInfo' = [t \in StorageIds |-> EmptyNFTInfo]
            /\ Success(<<MintingToggled(enabled)>>)
            /\ UNCHANGED <<_tokenIdCounter, mintPrice, _owners,
                           _tokenURIs, contractBalance, balances>>

toggleMinting(sender, enabled) ==
    /\ lastTx' = Tx("toggleMinting", sender, 0, ZERO)
    /\ UNCHANGED blockTimestamp
    /\ IF ~onlyOwner(sender) THEN Revert("OwnableUnauthorizedAccount")
       ELSE /\ mintingEnabled' = enabled
            /\ Success(<<MintingToggled(enabled)>>)
            /\ UNCHANGED <<_tokenIdCounter, mintPrice, nftInfo, _owners,
                           _tokenURIs, contractBalance, balances>>

mintIpfsNFTError(sender, value, name, description, ipfsHash) ==
    IF ~mintingEnabled THEN "MintingDisabled"
    ELSE IF SupplyExceeded(_tokenIdCounter) THEN "MaxSupplyExceeded"
    ELSE IF Underpaid(value, mintPrice) THEN "InsufficientPayment"
    ELSE IF IsEmpty(name) THEN "EmptyName"
    ELSE IF IsEmpty(description) THEN "EmptyDescription"
    ELSE IF IsEmpty(ipfsHash) THEN "InvalidIPFSHash"
    ELSE SafeMintError(sender, _tokenIdCounter)

mintIpfsNFT(sender, value, name, description, ipfsHash) ==
    LET tokenId == _tokenIdCounter
        error == mintIpfsNFTError(sender, value, name, description, ipfsHash)
        imageURI == ImageURI(ipfsHash)
        info == [name |-> name, description |-> description, imageURI |-> imageURI,
                 timestamp |-> blockTimestamp, minter |-> sender]
        metadataURI == _generateMetadataURI(info, tokenId)
    IN  /\ value <= balances[sender]
        /\ lastTx' = Tx("mintIpfsNFT", sender, value, sender)
        /\ UNCHANGED blockTimestamp
        /\ IF error # "" THEN Revert(error)
           ELSE /\ Pay(sender, value)
                /\ nftInfo' = [nftInfo EXCEPT ![tokenId] = info]
                /\ _owners' = [_owners EXCEPT ![tokenId] = sender]
                /\ _tokenURIs' = [_tokenURIs EXCEPT ![tokenId] = metadataURI]
                /\ _tokenIdCounter' = NextCounter(_tokenIdCounter)
                /\ Success(<<Transfer(ZERO, sender, tokenId),
                             MetadataUpdate(tokenId),
                             IPFSNFTMinted(tokenId, sender, ipfsHash),
                             NFTMinted(tokenId, sender, imageURI, metadataURI)>>)
                /\ UNCHANGED <<mintPrice, mintingEnabled>>

ownerMintErrorNoCap(sender, to, metadataURI) ==
    IF ~onlyOwner(sender) THEN "OwnableUnauthorizedAccount"
    ELSE IF IsEmpty(metadataURI) THEN "InvalidTokenURI"
    ELSE SafeMintError(to, _tokenIdCounter)

ownerMintError(sender, to, metadataURI) ==
    IF ~onlyOwner(sender) THEN "OwnableUnauthorizedAccount"
    ELSE IF SupplyExceeded(_tokenIdCounter) THEN "MaxSupplyExceeded"
    ELSE IF IsEmpty(metadataURI) THEN "InvalidTokenURI"
    ELSE SafeMintError(to, _tokenIdCounter)

ownerMint(sender, to, metadataURI) ==
    LET tokenId == _tokenIdCounter
        error == ownerMintError(sender, to, metadataURI)
    IN  /\ lastTx' = Tx("ownerMint", sender, 0, to)
        /\ UNCHANGED blockTimestamp
        /\ IF error # "" THEN Revert(error)
           ELSE /\ _owners' = [_owners EXCEPT ![tokenId] = to]
                /\ _tokenURIs' = [_tokenURIs EXCEPT ![tokenId] = metadataURI]
                /\ _tokenIdCounter' = NextCounter(_tokenIdCounter)
                /\ Success(<<Transfer(ZERO, to, tokenId),
                             MetadataUpdate(tokenId),
                             NFTMinted(tokenId, to, metadataURI, metadataURI)>>)
                /\ UNCHANGED <<mintPrice, mintingEnabled, nftInfo,
                               contractBalance, balances>>

mintIpfsNFTWithMetadataErrorNoSwitch(sender, value, name, description, ipfsHash, metadataURI) ==
    IF SupplyExceeded(_tokenIdCounter) THEN "MaxSupplyExceeded"
    ELSE IF Underpaid(value, mintPrice) THEN "InsufficientPayment"
    ELSE IF IsEmpty(name) THEN "EmptyName"
    ELSE IF IsEmpty(description) THEN "EmptyDescription"
    ELSE IF IsEmpty(ipfsHash) THEN "InvalidIPFSHash"
    ELSE IF IsEmpty(metadataURI) THEN "InvalidTokenURI"
    ELSE SafeMintError(sender, _tokenIdCounter)

mintIpfsNFTWithMetadataError(sender, value, name, description, ipfsHash, metadataURI) ==
    IF ~mintingEnabled THEN "MintingDisabled"
    ELSE IF SupplyExceeded(_tokenIdCounter) THEN "MaxSupplyExceeded"
    ELSE IF Underpaid(value, mintPrice) THEN "InsufficientPayment"
    ELSE IF IsEmpty(name) THEN "EmptyName"
    ELSE IF IsEmpty(description) THEN "EmptyDescription"
    ELSE IF IsEmpty(ipfsHash) THEN "InvalidIPFSHash"
    ELSE IF IsEmpty(metadataURI) THEN "InvalidTokenURI"
    ELSE SafeMintError(sender, _tokenIdCounter)

mintIpfsNFTWithMetadata(sender, value, name, description, ipfsHash, metadataURI) ==
    LET tokenId == _tokenIdCounter
        error == mintIpfsNFTWithMetadataError(sender, value, name, description,
                                              ipfsHash, metadataURI)
        imageURI == ImageURI(ipfsHash)
        info == [name |-> name, description |-> description, imageURI |-> imageURI,
                 timestamp |-> blockTimestamp, minter |-> sender]
    IN  /\ value <= balances[sender]
        /\ lastTx' = Tx("mintIpfsNFTWithMetadata", sender, value, sender)
        /\ UNCHANGED blockTimestamp
        /\ IF error # "" THEN Revert(error)
           ELSE /\ Pay(sender, value)
                /\ nftInfo' = [nftInfo EXCEPT ![tokenId] = info]
                /\ _owners' = [_owners EXCEPT ![tokenId] = sender]
                /\ _tokenURIs' = [_tokenURIs EXCEPT ![tokenId] = metadataURI]
                /\ _tokenIdCounter' = NextCounter(_tokenIdCounter)
                /\ Success(<<Transfer(ZERO, sender, tokenId),
                             MetadataUpdate(tokenId),
                             IPFSNFTMinted(tokenId, sender, ipfsHash),
                             NFTMinted(tokenId, sender, imageURI, metadataURI)>>)
                /\ UNCHANGED <<mintPrice, mintingEnabled>>

ownerMintIpfsError(sender, to, name, description, ipfsHash) ==
    IF ~onlyOwner(sender) THEN "OwnableUnauthorizedAccount"
    ELSE IF SupplyExceeded(_tokenIdCounter) THEN "MaxSupplyExceeded"
    ELSE IF IsEmpty(name) THEN "EmptyName"
    ELSE IF IsEmpty(ipfsHash) THEN "InvalidIPFSHash"
    ELSE SafeMintError(to, _tokenIdCounter)

ownerMintIpfs(sender, to, name, description, ipfsHash) ==
    LET tokenId == _tokenIdCounter
        error == ownerMintIpfsError(sender, to, name, description, ipfsHash)
        imageURI == ImageURI(ipfsHash)
        info == [name |-> name, description |-> description, imageURI |-> imageURI,
                 timestamp |-> blockTimestamp, minter |-> to]
        metadataURI == _generateMetadataURI(info, tokenId)
    IN  /\ lastTx' = Tx("ownerMintIpfs", sender, 0, to)
        /\ UNCHANGED blockTimestamp
        /\ IF error # "" THEN Revert(error)
           ELSE /\ nftInfo' = [nftInfo EXCEPT ![tokenId] = info]
                /\ _owners' = [_owners EXCEPT ![tokenId] = to]
                /\ _tokenURIs' = [_tokenURIs EXCEPT ![tokenId] = metadataURI]
                /\ _tokenIdCounter' = NextCounter(_tokenIdCounter)
                /\ Success(<<Transfer(ZERO, to, tokenId),
                             MetadataUpdate(tokenId),
                             IPFSNFTMinted(tokenId, to, ipfsHash)>>)
                /\ UNCHANGED <<mintPrice, mintingEnabled, contractBalance, balances>>

updateMintPriceDisables(sender, newPrice) ==
    /\ lastTx' = Tx("updateMintPrice", sender, 0, ZERO)
    /\ UNCHANGED blockTimestamp
    /\ IF ~onlyOwner(sender) THEN Revert("OwnableUnauthorizedAccount")
       ELSE /\ mintPrice' = newPrice
            /\ mintingEnabled' = FALSE
            /\ Success(<<MintPriceUpdated(newPrice)>>)
            /\ UNCHANGED <<_tokenIdCounter, nftInfo, _owners,
                           _tokenURIs, contractBalance, balances>>

updateMintPrice(sender, newPrice) ==
    /\ lastTx' = Tx("updateMintPrice", sender, 0, ZERO)
    /\ UNCHANGED blockTimestamp
    /\ IF ~onlyOwner(sender) THEN Revert("OwnableUnauthorizedAccount")
       ELSE /\ mintPrice' = newPrice
            /\ Success(<<MintPriceUpdated(newPrice)>>)
            /\ UNCHANGED <<_tokenIdCounter, mintingEnabled, nftInfo, _owners,
                           _tokenURIs, contractBalance, balances>>

\* the amount withdraw() sends to the owner
WithdrawAmountLeavesOne(balance) == balance - 1
WithdrawAmount(balance) == balance

\* payable(owner()).call{value: balance}(""): the owner is the deploying
\* externally owned account, which accepts any transfer
withdraw(sender) ==
    LET balance == contractBalance
    IN  /\ lastTx' = Tx("withdraw", sender, 0, ZERO)
        /\ UNCHANGED blockTimestamp
        /\ IF ~onlyOwner(sender) THEN Revert("OwnableUnauthorizedAccount")
           ELSE IF ~(balance > 0) THEN Revert("No funds to withdraw")
           ELSE /\ contractBalance' = contractBalance - WithdrawAmount(balance)
                /\ balances' = [balances EXCEPT ![owner] = @ + WithdrawAmount(balance)]
                /\ Success(<<>>)
                /\ UNCHANGED <<_tokenIdCounter, mintPrice, mintingEnabled,
                               nftInfo, _owners, _tokenURIs>>

\* a later block is mined: block.timestamp grows
mineBlock ==
    /\ blockTimestamp < MaxTime
    /\ blockTimestamp' = blockTimestamp + 1
    /\ UNCHANGED <<registry, lastTx, receipt>>

\* msg.value: nothing, the initial price, or more
Values == 0..TotalFunds
Recipients == Accounts \cup {ZERO}


\* ================================================================ client
\* The mint orchestrator: the hook useNftMinting and its entry point mintNFT.
\* mintNFT is an async function: every action below is the code that runs
\* from one await to the next, and other invocations and other parties'
\* transactions interleave at the awaits.

\* number of mintNFT invocations one hook instance sees
MaxAttempts == 2
Attempts == 1..MaxAttempts

VARIABLES
    uploading,        \* useState(false)
    loadingStep,      \* useState('')
    loadingProgress,  \* useState(0)
    mintedNftInfo,    \* useState(null)
    error,            \* useState('')
    success,          \* useState('')
    ethereum,         \* window.ethereum is there
    pinataAvailable,  \* isPinataAvailable()
    calls             \* the invocations of mintNFT: locals and position

hook == <<uploading, loadingStep, loadingProgress, mintedNftInfo, error, success>>
client == <<uploading, loadingStep, loadingProgress, mintedNftInfo, error,
            success, ethereum, pinataAvailable, calls>>

\* ipfsService.js
VARIABLES
    cidInput,         \* the argument isValidCID is called with
    valid,            \* <<what isValidCID returned>>, <<>> before the call
    gw,               \* the running call of findAccessibleGateway / realUploadToIPFS
    mock              \* the last call of mockUploadToIPFS / mockUploadMetadata

\* useContract.js
VARIABLES
    walletAccount,      \* the currentAccount prop
    contractInfo,       \* useState(null)
    loading,            \* useState(false)
    contractError,      \* useState(null), `error` in the source
    fetchedRef,         \* useRef(false)
    abortControllerRef, \* useRef(null): the read whose controller it holds
    reads,              \* the invocations of fetchContractInfo
    mounted             \* the component is mounted

service == <<cidInput, valid, gw, mock>>
contractHook == <<walletAccount, contractInfo, loading, contractError, fetchedRef,
                  abortControllerRef, reads, mounted>>
rest == <<service, contractHook>>
allvars == <<vars, client, rest>>

\* ------------------------------------------------------------ error objects
\* An error object: code, reason and message. A message is a sequence of
\* phrases; message.includes(word) asks for one of them.
Err(code, reason, message) == [code |-> code, reason |-> reason, message |-> message]
NoError == Err("", <<>>, <<>>)
\* new Error(message)
NewError(message) == Err("", <<>>, message)

includesNever(message, word) == FALSE
includes(message, word) == \E i \in DOMAIN message : message[i] = word

\* the messages of the hook (the source has them in Japanese)
MsgMissingArgument == <<"file or account is not given">>
MsgNoMetaMask == <<"MetaMask not found">>
MsgMintingDisabled == <<"minting is disabled">>
MsgMaxSupply == <<"max supply reached">>
\* the preflight adds the two numbers it compared
MsgMaxSupplyPreflight == <<"max supply reached", "(currentTokenId > maxSupply)">>
MsgLowBalance == <<"not enough ETH balance">>
MsgUnderpaid == <<"payment is too low">>
MsgEmptyName == <<"NFT name is empty">>
MsgEmptyDescription == <<"NFT description is empty">>
MsgEmptyHash == <<"IPFS hash is empty">>
MsgInvalidHash == <<"IPFS hash is invalid">>
MsgCallException == <<"contract execution error: conditions may not be met">>
MsgTxFailed == <<"transaction failed, check the contract's conditions">>
MsgTokenNotFound == <<"token id not found, the mint may have gone wrong">>
MsgUserRejected == <<"transaction rejected by the user">>
MsgNoFunds == <<"not enough ETH">>
MsgDefault == <<"failed to create the NFT">>

\* the catch of estimateGas: the error mintNFT throws for a gasError
gasErrorThrown(gasError) ==
    IF gasError.reason # <<>> THEN NewError(<<"contract error:">> \o gasError.reason)
    ELSE IF includes(gasError.message, "MintingDisabled") THEN NewError(MsgMintingDisabled)
    ELSE IF includes(gasError.message, "MaxSupplyExceeded") THEN NewError(MsgMaxSupply)
    ELSE IF includes(gasError.message, "InsufficientPayment") THEN NewError(MsgUnderpaid)
    ELSE IF includes(gasError.message, "EmptyName") THEN NewError(MsgEmptyName)
    ELSE IF includes(gasError.message, "EmptyDescription") THEN NewError(MsgEmptyDescription)
    ELSE IF includes(gasError.message, "InvalidIPFSHash") THEN NewError(MsgInvalidHash)
    ELSE NewError(<<"gas estimation error:">> \o gasError.message)

\* the catch of the send: the error mintNFT throws for a txError
txErrorThrown(txError) ==
    IF txError.reason # <<>> THEN NewError(<<"contract error:">> \o txError.reason)
    ELSE IF txError.code = "CALL_EXCEPTION" THEN NewError(MsgCallException)
    ELSE txError

\* the outer catch: the message setError receives
errorMessage(e) ==
    IF e.code = "4001" THEN MsgUserRejected
    ELSE IF e.code = "INSUFFICIENT_FUNDS" THEN MsgNoFunds
    ELSE IF includes(e.message, "MintingDisabled") THEN MsgMintingDisabled
    ELSE IF includes(e.message, "MaxSupplyExceeded") THEN MsgMaxSupply
    ELSE IF includes(e.message, "InsufficientPayment") THEN MsgUnderpaid
    ELSE IF e.message # <<>> THEN e.message
    ELSE MsgDefault

\* what the provider makes of a revert with the custom error `name`: the name
\* as reason, the name in the message only, or neither
RevertShapes == {"reason", "message", "opaque"}
CallException(name, shape) ==
    IF shape = "reason"
    THEN Err("CALL_EXCEPTION", <<name>>, <<"execution reverted:", name>>)
    ELSE IF shape = "message"
    THEN Err("CALL_EXCEPTION", <<>>, <<"execution reverted:", name>>)
    ELSE Err("CALL_EXCEPTION", <<>>, <<"execution reverted (unknown custom error)">>)

\* what the wallet or the node answers to a send it does not accept
SendErrors ==
    { Err("4001", <<>>, <<"user denied transaction signature">>),
      Err("4001", <<"rejected">>, <<"user rejected action">>),
      Err("CALL_EXCEPTION", <<>>, <<"execution reverted">>),
      Err("INSUFFICIENT_FUNDS", <<>>, <<"insufficient funds">>) }

\* ------------------------------------------------------------------ files
\* a File, its name one character per element; NoFile is null
NoFile == [present |-> FALSE, name |-> <<>>]
ArtPng == [present |-> TRUE, name |-> <<"A", "r", "t", ".", "p", "n", "g">>]
Files == {NoFile, ArtPng}

\* where /\.[^/.]+$/ matches: a dot followed to the end by one or more
\* characters that are neither a slash nor a dot
ExtensionAt(name) ==
    {i \in DOMAIN name :
        /\ name[i] = "."
        /\ i < Len(name)
        /\ \A j \in (i + 1)..Len(name) : name[j] \notin {"/", "."}}

RECURSIVE Join(_)
Join(chars) == IF chars = <<>> THEN "" ELSE Head(chars) \o Join(Tail(chars))

\* file.name.replace(/\.[^/.]+$/, "")
fileName(file) ==
    IF ExtensionAt(file.name) = {} THEN Join(file.name)
    ELSE Join(SubSeq(file.name, 1, (CHOOSE i \in ExtensionAt(file.name) : TRUE) - 1))

\* `${fileName} - Created with NFT Maker`
description(file) == fileName(file) \o " - Created with NFT Maker"

\* ---------------------------------------------------------------- uploads
\* the identifiers of the metadata document: the pinning provider's, and the
\* one the mock upload makes up
MetadataCid == "QmMeta"
MockMetadataCid == "QmMockMeta"
Cids == {MetadataCid, MockMetadataCid}
ipfsUri(cid) == "ipfs://" \o cid

\* metadataURI.replace('ipfs://', '')
ipfsHashOf(metadataURI) ==
    IF \E cid \in Cids \cup {""} : ipfsUri(cid) = metadataURI
    THEN CHOOSE cid \in Cids \cup {""} : ipfsUri(cid) = metadataURI
    ELSE metadataURI

\* the gateways, in the order Object.keys lists them
ETHERSCAN_COMPATIBLE_GATEWAYS ==
    << [key |-> "w3s_link", url |-> "https://w3s.link/ipfs/"],
       [key |-> "dweb", url |-> "https://dweb.link/ipfs/"],
       [key |-> "gateway_pinata", url |-> "https://gateway.pinata.cloud/ipfs/"],
       [key |-> "ipfs_io", url |-> "https://ipfs.io/ipfs/"],
       [key |-> "cf_ipfs", url |-> "https://cf-ipfs.com/ipfs/"],
       [key |-> "cloudflare_ipfs", url |-> "https://cloudflare-ipfs.com/ipfs/"],
       [key |-> "nftstorage", url |-> "https://nftstorage.link/ipfs/"],
       [key |-> "web3storage", url |-> "https://w3s.link/ipfs/"] >>

\* ETHERSCAN_COMPATIBLE_GATEWAYS[gateway] || ETHERSCAN_COMPATIBLE_GATEWAYS.w3s_link,
\* then `${baseUrl}${cid}`
generateEtherscanCompatibleUrl(cid, gateway) ==
    LET at == {i \in DOMAIN ETHERSCAN_COMPATIBLE_GATEWAYS :
                  ETHERSCAN_COMPATIBLE_GATEWAYS[i].key = gateway}
        baseUrl == IF at = {} THEN ETHERSCAN_COMPATIBLE_GATEWAYS[1].url
                   ELSE ETHERSCAN_COMPATIBLE_GATEWAYS[CHOOSE i \in at : TRUE].url
    IN  baseUrl \o cid

\* the identifiers of the image: the pinning provider's, and the one the
\* mock upload makes up
ImageCid == "QmImage"
MockImageCid == "QmMockImage"

\* what mockUploadToIPFS resolves to
mockUploadToIPFS(mockCID) ==
    [cid |-> mockCID,
     httpsUrl |-> generateEtherscanCompatibleUrl(mockCID, "w3s_link"),
     ipfsUri |-> ipfsUri(mockCID)]

\* what realUploadToIPFS resolves to when the provider pinned the file
realUploadToIPFS(cidString) ==
    [cid |-> cidString,
     httpsUrl |-> generateEtherscanCompatibleUrl(cidString, "ipfs_io"),
     ipfsUri |-> ipfsUri(cidString),
     alternativeUrls |->
         [k \in {"ipfs_io", "w3s_link", "dweb", "gateway_pinata", "cf_ipfs"} |->
             generateEtherscanCompatibleUrl(cidString, k)]]

\* an upload of image and metadata: the image result, the metadata's image
\* field, the string uploadNFTData returns, and whether the mock made it
NoUpload == [image |-> [cid |-> ""], metadataImage |-> "", returned |-> "", mock |-> FALSE]

mockUploadNFTData ==
    LET imageResult == mockUploadToIPFS(MockImageCid)
    IN  [image |-> imageResult, metadataImage |-> imageResult.httpsUrl,
         returned |-> ipfsUri(MockMetadataCid), mock |-> TRUE]

realUploadNFTData ==
    LET imageResult == realUploadToIPFS(ImageCid)
    IN  [image |-> imageResult, metadataImage |-> imageResult.httpsUrl,
         returned |-> ipfsUri(MetadataCid), mock |-> FALSE]

\* getIPFSUploader().uploadNFTData: with the provider configured the real
\* upload runs (pinning, then a gateway probe) and, when it fails, the mock
\* takes over; without it the mock runs, which uses no network
UploadOutcomes ==
    IF pinataAvailable
    THEN { [upload |-> realUploadNFTData, metadataURI |-> realUploadNFTData.returned,
            network |-> {"pinning", "gateway"}],
           [upload |-> mockUploadNFTData, metadataURI |-> mockUploadNFTData.returned,
            network |-> {"pinning"}] }
    ELSE { [upload |-> mockUploadNFTData, metadataURI |-> mockUploadNFTData.returned,
            network |-> {}] }

\* ---------------------------------------------------------- invocations
NoReceipt == [status |-> 0, error |-> "", logs |-> <<>>]
\* null
NoNftInfo == [tokenId |-> 0, txHash |-> 0, metadataURI |-> "", fileName |-> <<>>]

\* an invocation of mintNFT: pc is the await it is suspended at, owner what
\* ownerOf answered, network the kinds of network calls it has made, done the
\* awaits it has completed, txError what the catch of the send caught
IdleCall ==
    [pc |-> "idle", file |-> NoFile, currentAccount |-> ZERO, metadataURI |-> "",
     mintingEnabled |-> FALSE, mintPrice |-> 0, receipt |-> NoReceipt,
     tokenId |-> 0, owner |-> ZERO, network |-> {}, done |-> <<>>,
     upload |-> NoUpload, txError |-> NoError,
     thrown |-> NoError, returned |-> NoNftInfo]

\* useNftMinting(): the initial values of useState
useNftMinting ==
    /\ uploading = FALSE
    /\ loadingStep = ""
    /\ loadingProgress = 0
    /\ mintedNftInfo = NoNftInfo
    /\ error = <<>>
    /\ success = ""
    /\ calls = [a \in Attempts |-> IdleCall]

\* updateProgress(step, progress)
updateProgress(step, progress) ==
    /\ loadingStep' = step
    /\ loadingProgress' = progress

\* the invocation goes on to its next await
Await(a, frame, pc) ==
    calls' = [calls EXCEPT ![a] =
                 [frame EXCEPT !.pc = pc, !.done = Append(@, calls[a].pc)]]

\* throw inside the try: catch (setError, rethrow) and finally
Throw(a, frame, e) ==
    /\ calls' = [calls EXCEPT ![a] =
                    [frame EXCEPT !.pc = "thrown", !.thrown = e,
                                  !.done = Append(@, calls[a].pc)]]
    /\ error' = errorMessage(e)
    /\ uploading' = FALSE
    /\ loadingStep' = ""
    /\ loadingProgress' = 0
    /\ UNCHANGED <<mintedNftInfo, success>>

\* mintNFT(file, currentAccount) up to its first await
mintNFT(a, file, currentAccount) ==
    /\ calls[a].pc = "idle"
    /\ \A b \in Attempts : b < a => calls[b].pc # "idle"
    /\ UNCHANGED <<vars, rest, ethereum, pinataAvailable>>
    /\ IF ~file.present \/ currentAccount = ZERO
       THEN /\ calls' = [calls EXCEPT ![a] =
                            [@ EXCEPT !.pc = "thrown", !.file = file,
                                      !.currentAccount = currentAccount,
                                      !.thrown = NewError(MsgMissingArgument)]]
            /\ UNCHANGED hook
       ELSE /\ uploading' = TRUE
            /\ error' = <<>>
            /\ success' = ""
            /\ updateProgress("uploading the image to IPFS", 20)
            /\ calls' = [calls EXCEPT ![a] =
                            [@ EXCEPT !.pc = "uploadNFTData", !.file = file,
                                      !.currentAccount = currentAccount]]
            /\ UNCHANGED mintedNftInfo

\* handleMintClick of NftUploader: clearMintError(), then mintNFT
handleMintClick(a, selectedFile, currentAccount) ==
    /\ selectedFile.present
    /\ currentAccount # ZERO
    /\ mintNFT(a, selectedFile, currentAccount)

\* await ipfsUploader.uploadNFTData(...), then the wallet check
mintNFT_uploadNFTData(a) ==
    /\ calls[a].pc = "uploadNFTData"
    /\ UNCHANGED <<vars, rest, ethereum, pinataAvailable>>
    /\ \E upload \in UploadOutcomes :
          LET frame == [calls[a] EXCEPT !.metadataURI = upload.metadataURI,
                                        !.upload = upload.upload,
                                        !.network = @ \cup upload.network]
          IN  IF ~ethereum
              THEN Throw(a, frame, NewError(MsgNoMetaMask))
              ELSE /\ Await(a, frame, "getSigner")
                   /\ updateProgress("calling the smart contract", 60)
                   /\ UNCHANGED <<uploading, mintedNftInfo, error, success>>

mintNFT_getSignerSends(a) ==
    /\ calls[a].pc = "getSigner"
    /\ UNCHANGED <<vars, rest, ethereum, pinataAvailable, hook>>
    /\ Await(a, calls[a], "send")

\* await provider.getSigner()
mintNFT_getSigner(a) ==
    /\ calls[a].pc = "getSigner"
    /\ UNCHANGED <<vars, rest, ethereum, pinataAvailable, hook>>
    /\ Await(a, calls[a], "mintingEnabled")

\* await contract.mintingEnabled()
mintNFT_mintingEnabled(a) ==
    /\ calls[a].pc = "mintingEnabled"
    /\ UNCHANGED <<vars, rest, ethereum, pinataAvailable, hook>>
    /\ Await(a, [calls[a] EXCEPT !.mintingEnabled = mintingEnabled,
                                 !.network = @ \cup {"ledger"}],
             "mintPrice")

\* await contract.mintPrice(), totalSupply(), MAX_SUPPLY(): the last two are
\* only logged
mintNFT_mintPrice(a) ==
    /\ calls[a].pc = "mintPrice"
    /\ UNCHANGED <<vars, rest, ethereum, pinataAvailable, hook>>
    /\ Await(a, [calls[a] EXCEPT !.mintPrice = mintPrice], "getCurrentTokenId")

mintNFT_getCurrentTokenIdUnchecked(a) ==
    /\ calls[a].pc = "getCurrentTokenId"
    /\ UNCHANGED <<vars, rest, ethereum, pinataAvailable, hook>>
    /\ Await(a, calls[a], "getBalance")

\* await contract.getCurrentTokenId(), getContractBalance() (only logged),
\* then the checks of what was read
mintNFT_getCurrentTokenId(a) ==
    LET currentTokenId == getCurrentTokenId
        maxSupply == MAX_SUPPLY
    IN  /\ calls[a].pc = "getCurrentTokenId"
        /\ UNCHANGED <<vars, rest, ethereum, pinataAvailable>>
        /\ IF ~calls[a].mintingEnabled
           THEN Throw(a, calls[a], NewError(MsgMintingDisabled))
           ELSE IF currentTokenId > maxSupply
           THEN Throw(a, calls[a], NewError(MsgMaxSupplyPreflight))
           ELSE /\ Await(a, calls[a], "getBalance")
                /\ UNCHANGED hook

\* await provider.getBalance(currentAccount), then the local checks
mintNFT_getBalance(a) ==
    LET userBalance == balances[calls[a].currentAccount]
        ipfsHash == ipfsHashOf(calls[a].metadataURI)
    IN  /\ calls[a].pc = "getBalance"
        /\ UNCHANGED <<vars, rest, ethereum, pinataAvailable>>
        /\ IF userBalance < calls[a].mintPrice
           THEN Throw(a, calls[a], NewError(MsgLowBalance))
           ELSE IF Len(fileName(calls[a].file)) = 0
           THEN Throw(a, calls[a], NewError(MsgEmptyName))
           ELSE IF Len(ipfsHash) = 0
           THEN Throw(a, calls[a], NewError(MsgEmptyHash))
           ELSE /\ Await(a, calls[a], "estimateGas")
                /\ updateProgress("sending the transaction", 80)
                /\ UNCHANGED <<uploading, mintedNftInfo, error, success>>

\* await contract.mintIpfsNFTWithMetadata.estimateGas(...): the node runs the
\* call on the state it has now, without changing it
mintNFT_estimateGas(a) ==
    LET f == calls[a]
        sender == f.currentAccount
        revert == mintIpfsNFTWithMetadataError(sender, f.mintPrice, fileName(f.file),
                      description(f.file), ipfsHashOf(f.metadataURI), f.metadataURI)
    IN  /\ f.pc = "estimateGas"
        /\ UNCHANGED <<vars, rest, ethereum, pinataAvailable>>
        /\ IF balances[sender] < f.mintPrice
           THEN Throw(a, f, gasErrorThrown(
                    Err("INSUFFICIENT_FUNDS", <<>>, <<"insufficient funds">>)))
           ELSE IF revert # ""
           THEN \E shape \in RevertShapes :
                    Throw(a, f, gasErrorThrown(CallException(revert, shape)))
           ELSE /\ Await(a, f, "send")
                /\ UNCHANGED hook

\* await contract.mintIpfsNFTWithMetadata(..., {value, gasLimit}): the wallet
\* and the node either take the transaction, which is then pending, or answer
\* with an error
mintNFT_send(a) ==
    /\ calls[a].pc = "send"
    /\ UNCHANGED <<vars, rest, ethereum, pinataAvailable>>
    /\ \/ /\ Await(a, calls[a], "wait")
          /\ updateProgress("confirming the transaction", 90)
          /\ UNCHANGED <<uploading, mintedNftInfo, error, success>>
       \/ \E txError \in SendErrors :
              Throw(a, [calls[a] EXCEPT !.txError = txError], txErrorThrown(txError))

\* receipt.logs.find(log => parseLog(log).name === 'Transfer'): the logs the
\* contract interface can parse and that are Transfer events
transferEvents(logs, parses) ==
    {i \in DOMAIN logs : parses /\ logs[i].event = "Transfer"}

mintNFT_waitRetries(a) ==
    LET f == calls[a]
    IN  /\ f.pc = "wait"
        /\ UNCHANGED <<rest, ethereum, pinataAvailable>>
        /\ mintIpfsNFTWithMetadata(f.currentAccount, f.mintPrice, fileName(f.file),
               description(f.file), ipfsHashOf(f.metadataURI), f.metadataURI)
        /\ IF receipt'.status = 0
           THEN Await(a, [f EXCEPT !.receipt = receipt'], "wait")
           ELSE Await(a, [f EXCEPT !.receipt = receipt',
                                   !.tokenId = receipt'.logs[1].tokenId], "ownerOf")
        /\ UNCHANGED hook

mintNFT_waitUnchecked(a) ==
    LET f == calls[a]
    IN  /\ f.pc = "wait"
        /\ UNCHANGED <<rest, ethereum, pinataAvailable>>
        /\ mintIpfsNFTWithMetadata(f.currentAccount, f.mintPrice, fileName(f.file),
               description(f.file), ipfsHashOf(f.metadataURI), f.metadataURI)
        /\ Await(a, [f EXCEPT !.receipt = receipt'], "fallback")
        /\ UNCHANGED hook

\* await transaction.wait(): the pending transaction is included, which runs
\* Web3Mint.mintIpfsNFTWithMetadata on the state of that moment, and the
\* receipt comes back; then the status check and the scan of the logs
mintNFT_wait(a) ==
    LET f == calls[a]
    IN  /\ f.pc = "wait"
        /\ UNCHANGED <<rest, ethereum, pinataAvailable>>
        /\ mintIpfsNFTWithMetadata(f.currentAccount, f.mintPrice, fileName(f.file),
               description(f.file), ipfsHashOf(f.metadataURI), f.metadataURI)
        /\ LET frame == [f EXCEPT !.receipt = receipt']
           IN  IF receipt'.status = 0
               THEN Throw(a, frame, NewError(MsgTxFailed))
               ELSE \E parses \in BOOLEAN :
                       LET found == transferEvents(receipt'.logs, parses)
                           transferEvent == CHOOSE i \in found : \A j \in found : i <= j
                       IN  /\ IF found # {}
                              THEN Await(a, [frame EXCEPT !.tokenId =
                                                receipt'.logs[transferEvent].tokenId],
                                         "ownerOf")
                              ELSE Await(a, frame, "fallback")
                           /\ UNCHANGED hook

\* what a read of the ledger rejects with when the node cannot be reached
NetworkError == Err("NETWORK_ERROR", <<>>, <<"could not detect network">>)

\* await contract.getCurrentTokenId(): tokenId = currentId - 1; when the read
\* rejects, the catch around the resolution of the identifier reads again
mintNFT_fallback(a) ==
    LET currentId == getCurrentTokenId
    IN  /\ calls[a].pc = "fallback"
        /\ UNCHANGED <<vars, rest, ethereum, pinataAvailable, hook>>
        /\ \E reachable \in BOOLEAN :
              IF reachable
              THEN Await(a, [calls[a] EXCEPT !.tokenId = currentId - 1], "ownerOf")
              ELSE Await(a, calls[a], "lastResort")

\* the catch: await contract.getCurrentTokenId() once more; a rejection now
\* reaches the outer catch
mintNFT_lastResort(a) ==
    LET currentId == getCurrentTokenId
    IN  /\ calls[a].pc = "lastResort"
        /\ UNCHANGED <<vars, rest, ethereum, pinataAvailable>>
        /\ \E reachable \in BOOLEAN :
              IF reachable
              THEN /\ Await(a, [calls[a] EXCEPT !.tokenId = currentId - 1], "ownerOf")
                   /\ UNCHANGED hook
              ELSE Throw(a, calls[a], NetworkError)

\* ERC721.ownerOf(tokenId): ZERO stands for the revert ERC721NonexistentToken
ownerOf(tokenId) == IF tokenId \in StorageIds THEN _owners[tokenId] ELSE ZERO

mintNFT_ownerOfUnverified(a) ==
    LET f == calls[a]
        nftInfo_ == [tokenId |-> f.tokenId, txHash |-> a,
                     metadataURI |-> f.metadataURI, fileName |-> f.file.name]
    IN  /\ f.pc = "ownerOf"
        /\ UNCHANGED <<vars, rest, ethereum, pinataAvailable>>
        /\ \E reachable \in BOOLEAN :
              /\ calls' = [calls EXCEPT ![a] =
                              [f EXCEPT !.pc = "returned", !.returned = nftInfo_,
                                        !.owner = IF reachable THEN ownerOf(f.tokenId)
                                                  ELSE ZERO,
                                        !.done = Append(@, f.pc)]]
              /\ mintedNftInfo' = nftInfo_
              /\ success' = "NFT created"
              /\ uploading' = FALSE
              /\ updateProgress("", 0)
              /\ UNCHANGED error

\* await contract.ownerOf(tokenId): the read fails when the token does not
\* exist or the node cannot be reached; after it the result is built, the
\* states are set and mintNFT returns (finally resets the progress)
mintNFT_ownerOf(a) ==
    LET f == calls[a]
        nftInfo_ == [tokenId |-> f.tokenId, txHash |-> a,
                     metadataURI |-> f.metadataURI, fileName |-> f.file.name]
    IN  /\ f.pc = "ownerOf"
        /\ UNCHANGED <<vars, rest, ethereum, pinataAvailable>>
        /\ \E reachable \in BOOLEAN :
              IF reachable /\ ownerOf(f.tokenId) # ZERO
              THEN /\ calls' = [calls EXCEPT ![a] =
                                   [f EXCEPT !.pc = "returned", !.returned = nftInfo_,
                                             !.owner = ownerOf(f.tokenId),
                                             !.done = Append(@, f.pc)]]
                   /\ mintedNftInfo' = nftInfo_
                   /\ success' = "NFT created"
                   /\ uploading' = FALSE
                   /\ updateProgress("", 0)
                   /\ UNCHANGED error
              ELSE Throw(a, f, NewError(MsgTokenNotFound))

clearMintedInfo ==
    /\ mintedNftInfo' = NoNftInfo
    /\ success' = ""
    /\ UNCHANGED <<vars, rest, ethereum, pinataAvailable, calls, uploading,
                   loadingStep, loadingProgress, error>>

clearError ==
    /\ error' = <<>>
    /\ UNCHANGED <<vars, rest, ethereum, pinataAvailable, calls, uploading,
                   loadingStep, loadingProgress, mintedNftInfo, success>>

\* ------------------------------------------------------------ ipfsService
\* A JavaScript value given as cid: a string, one character per element, or
\* a value of another type.
Str(chars) == [type |-> "string", chars |-> chars]
NotAString == {[type |-> "undefined", chars |-> <<>>],
               [type |-> "number", chars |-> <<>>],
               [type |-> "object", chars |-> <<>>]}

\* the letters and digits in code order, for the ranges of a character class
Alphabet ==
    << "0", "1", "2", "3", "4", "5", "6", "7", "8", "9",
       "A", "B", "C", "D", "E", "F", "G", "H", "I", "J", "K", "L", "M",
       "N", "O", "P", "Q", "R", "S", "T", "U", "V", "W", "X", "Y", "Z",
       "a", "b", "c", "d", "e", "f", "g", "h", "i", "j", "k", "l", "m",
       "n", "o", "p", "q", "r", "s", "t", "u", "v", "w", "x", "y", "z" >>
CodeOf(c) == IF \E i \in DOMAIN Alphabet : Alphabet[i] = c
             THEN CHOOSE i \in DOMAIN Alphabet : Alphabet[i] = c
             ELSE 0
\* c is in the range lo-hi of a character class
InRange(c, lo, hi) == CodeOf(c) # 0 /\ CodeOf(lo) <= CodeOf(c) /\ CodeOf(c) <= CodeOf(hi)

\* the repetition counts of the two patterns
CIDV0_BODY == 44
CIDV1_BODY == 56

\* /^Qm[1-9A-HJ-NP-Za-km-z]{44}$/.test(s)
cidv0RegexLengthOnly(s) == Len(s) = 2 + CIDV0_BODY /\ s[1] = "Q" /\ s[2] = "m"
cidv0Regex(s) ==
    /\ Len(s) = 2 + CIDV0_BODY
    /\ s[1] = "Q" /\ s[2] = "m"
    /\ \A i \in 3..Len(s) :
          \/ InRange(s[i], "1", "9")
          \/ InRange(s[i], "A", "H")
          \/ InRange(s[i], "J", "N")
          \/ InRange(s[i], "P", "Z")
          \/ InRange(s[i], "a", "k")
          \/ InRange(s[i], "m", "z")

\* /^ba[a-z0-9]{56,}$/.test(s)
cidv1Regex(s) ==
    /\ Len(s) >= 2 + CIDV1_BODY
    /\ s[1] = "b" /\ s[2] = "a"
    /\ \A i \in 3..Len(s) : InRange(s[i], "a", "z") \/ InRange(s[i], "0", "9")

isValidCID(c) ==
    IF c.type # "string" THEN FALSE
    ELSE cidv0Regex(c.chars) \/ cidv1Regex(c.chars)

\* isValidCID(cid) called with the argument chosen at the start
isValidCID_call ==
    /\ valid = <<>>
    /\ valid' = <<isValidCID(cidInput)>>
    /\ UNCHANGED <<mock, cidInput, gw, vars, client, contractHook>>

\* ------------------------------------------------------- mock uploads
\* the characters U+0020 .. U+007E in code order ("U+0060" is the grave
\* accent); "U+7D75" stands for a character above U+00FF
Ascii ==
    <<" ", "!", "\"", "#", "$", "%", "&", "'", "(", ")", "*", "+", ",",
      "-", ".", "/", "0", "1", "2", "3", "4", "5", "6", "7", "8", "9", ":",
      ";", "<", "=", ">", "?", "@", "A", "B", "C", "D", "E", "F", "G", "H",
      "I", "J", "K", "L", "M", "N", "O", "P", "Q", "R", "S", "T", "U", "V",
      "W", "X", "Y", "Z", "[", "\\", "]", "^", "_", "U+0060", "a", "b", "c",
      "d", "e", "f", "g", "h", "i", "j", "k", "l", "m", "n", "o", "p", "q",
      "r", "s", "t", "u", "v", "w", "x", "y", "z", "{", "|", "}", "~">>
WideChar == "U+7D75"
charCodeAt(c) ==
    IF c = WideChar THEN 32117
    ELSE 31 + (CHOOSE i \in DOMAIN Ascii : Ascii[i] = c)

\* the base64 alphabet of btoa
Base64Alphabet ==
    <<"A", "B", "C", "D", "E", "F", "G", "H", "I", "J", "K", "L", "M", "N",
      "O", "P", "Q", "R", "S", "T", "U", "V", "W", "X", "Y", "Z", "a", "b",
      "c", "d", "e", "f", "g", "h", "i", "j", "k", "l", "m", "n", "o", "p",
      "q", "r", "s", "t", "u", "v", "w", "x", "y", "z", "0", "1", "2", "3",
      "4", "5", "6", "7", "8", "9", "+", "/">>
sextet(n) == Base64Alphabet[n + 1]

RECURSIVE btoaBytes(_)
\* btoa over the character codes: three bytes make four characters, the
\* last group is padded with "="
btoaBytes(b) ==
    IF Len(b) = 0 THEN <<>>
    ELSE IF Len(b) = 1
    THEN <<sextet(b[1] \div 4), sextet((b[1] % 4) * 16), "=", "=">>
    ELSE IF Len(b) = 2
    THEN <<sextet(b[1] \div 4), sextet((b[1] % 4) * 16 + b[2] \div 16),
           sextet((b[2] % 16) * 4), "=">>
    ELSE <<sextet(b[1] \div 4), sextet((b[1] % 4) * 16 + b[2] \div 16),
           sextet((b[2] % 16) * 4 + b[3] \div 64), sextet(b[3] % 64)>>
         \o btoaBytes(SubSeq(b, 4, Len(b)))

\* btoa(s) throws InvalidCharacterError for a character above U+00FF
btoaThrows(s) == \E i \in DOMAIN s : charCodeAt(s[i]) > 255
btoa(s) == btoaBytes([i \in DOMAIN s |-> charCodeAt(s[i])])

\* s.replace(/[^a-zA-Z0-9]/g, "")
alphanumeric(s) == SelectSeq(s, LAMBDA c : CodeOf(c) # 0)
\* s.slice(0, n)
slice(s, n) == SubSeq(s, 1, IF Len(s) < n THEN Len(s) ELSE n)

\* "Qm" + btoa(text + Date.now()).replace(/[^a-zA-Z0-9]/g, "").slice(0, 44)
mockCID(text, now) == <<"Q", "m">> \o slice(alphanumeric(btoa(text \o now)), 44)

\* JSON.stringify(metadata) of the object mockUploadNFTData builds, up to its
\* image field (external_url and attributes follow it)
JSONstringify(metadata) ==
    <<"{", "\"", "n", "a", "m", "e", "\"", ":", "\"">>
    \o metadata.name \o
    <<"\"", ",", "\"", "d", "e", "s", "c", "r", "i", "p", "t", "i", "o",
      "n", "\"", ":", "\"">>
    \o metadata.description \o
    <<"\"", ",", "\"", "i", "m", "a", "g", "e", "\"", ":", "\"">>
    \o metadata.image \o <<"\"", "}">>

\* no call of a mock upload was made
NoMock == [pc |-> "idle", fn |-> "", text |-> <<>>, now |-> <<>>, cid |-> <<>>,
           thrown |-> FALSE]

\* a call of mockUploadToIPFS / mockUploadMetadata with the text its
\* identifier is made of, at the time Date.now() = now
mockUpload(fn, text, now) ==
    /\ mock.pc = "idle"
    /\ mock' = IF btoaThrows(text \o now)
               THEN [pc |-> "done", fn |-> fn, text |-> text, now |-> now,
                     cid |-> <<>>, thrown |-> TRUE]
               ELSE [pc |-> "done", fn |-> fn, text |-> text, now |-> now,
                     cid |-> mockCID(text, now), thrown |-> FALSE]
    /\ UNCHANGED <<cidInput, valid, gw, vars, client, contractHook>>

\* mockUploadToIPFS(file)
mockUploadToIPFS_call(file, now) == mockUpload("mockUploadToIPFS", file.name, now)

\* mockUploadMetadata(metadata)
mockUploadMetadata_call(metadata, now) ==
    mockUpload("mockUploadMetadata", JSONstringify(metadata), now)

\* ------------------------------------------------- gateway resolution
\* the distinct endpoints behind the gateway list
Endpoints == {ETHERSCAN_COMPATIBLE_GATEWAYS[i].url : i \in DOMAIN ETHERSCAN_COMPATIBLE_GATEWAYS}
\* what fetch(url, {method: 'HEAD'}) gives: a 2xx response, another response,
\* or a rejection (network error, the 5 s timeout): 0
Statuses == {200, 404, 0}
ok(status) == 200 <= status /\ status <= 299

NoCall ==
    [pc |-> "idle", fn |-> "", cid |-> Str(<<>>), responses |-> <<>>, head |-> <<>>,
     i |-> 0, probes |-> <<>>, returned |-> "", thrown |-> ""]

\* the URL of the i-th gateway for the call's cid
GatewayUrl(call, i) ==
    generateEtherscanCompatibleUrl(Join(call.cid.chars), ETHERSCAN_COMPATIBLE_GATEWAYS[i].key)

\* findAccessibleGateway(cid) up to its first fetch; responses is how the
\* endpoints answer during this call
findAccessibleGateway(c, responses) ==
    /\ gw.pc = "idle"
    /\ LET call == [NoCall EXCEPT !.fn = "findAccessibleGateway", !.cid = c,
                                  !.responses = responses, !.i = 1]
       IN  gw' = [call EXCEPT !.pc = "fetch", !.probes = <<GatewayUrl(call, 1)>>]
    /\ UNCHANGED <<mock, cidInput, valid, vars, client, contractHook>>

\* the end of the loop: the default URL; realUploadToIPFS ignores it and
\* returns its primary URL
loopResult(call, url) ==
    IF call.fn = "findAccessibleGateway" THEN url
    ELSE generateEtherscanCompatibleUrl(Join(call.cid.chars), "ipfs_io")

findAccessibleGateway_fetchAnyResponse ==
    /\ gw.pc = "fetch"
    /\ LET status == gw.responses[ETHERSCAN_COMPATIBLE_GATEWAYS[gw.i].url]
       IN  IF status # 0
           THEN gw' = [gw EXCEPT !.pc = "returned",
                                 !.returned = loopResult(gw, GatewayUrl(gw, gw.i))]
           ELSE IF gw.i < Len(ETHERSCAN_COMPATIBLE_GATEWAYS)
           THEN gw' = [gw EXCEPT !.i = @ + 1,
                                 !.probes = Append(@, GatewayUrl(gw, gw.i + 1))]
           ELSE gw' = [gw EXCEPT !.pc = "returned",
                          !.returned = loopResult(gw,
                              generateEtherscanCompatibleUrl(Join(gw.cid.chars), "ipfs_io"))]
    /\ UNCHANGED <<mock, cidInput, valid, vars, client, contractHook>>

\* await fetch(url, HEAD) in the loop over the gateways: response.ok returns
\* the URL, anything else goes on to the next gateway, and after the last one
\* the ipfs_io URL is returned
findAccessibleGateway_fetch ==
    /\ gw.pc = "fetch"
    /\ LET status == gw.responses[ETHERSCAN_COMPATIBLE_GATEWAYS[gw.i].url]
       IN  IF ok(status)
           THEN gw' = [gw EXCEPT !.pc = "returned",
                                 !.returned = loopResult(gw, GatewayUrl(gw, gw.i))]
           ELSE IF gw.i < Len(ETHERSCAN_COMPATIBLE_GATEWAYS)
           THEN gw' = [gw EXCEPT !.i = @ + 1,
                                 !.probes = Append(@, GatewayUrl(gw, gw.i + 1))]
           ELSE gw' = [gw EXCEPT !.pc = "returned",
                          !.returned = loopResult(gw,
                              generateEtherscanCompatibleUrl(Join(gw.cid.chars), "ipfs_io"))]
    /\ UNCHANGED <<mock, cidInput, valid, vars, client, contractHook>>

\* realUploadToIPFS(file) up to await client.pinFileToIPFS(file, options)
realUploadToIPFS_pinFileToIPFS(responses) ==
    /\ gw.pc = "idle"
    /\ gw' = [NoCall EXCEPT !.pc = "pinFileToIPFS", !.fn = "realUploadToIPFS",
                            !.responses = responses]
    /\ UNCHANGED <<mock, cidInput, valid, vars, client, contractHook>>

\* the provider answers with result.IpfsHash = c, or the call rejects; then
\* the check of the cid and the HEAD request for the primary URL
realUploadToIPFS_IpfsHash(c, rejected) ==
    /\ gw.pc = "pinFileToIPFS"
    /\ IF rejected
       THEN gw' = [gw EXCEPT !.pc = "thrown", !.thrown = "IPFS upload failed"]
       ELSE IF ~isValidCID(c)
       THEN gw' = [gw EXCEPT !.pc = "thrown", !.cid = c,
                             !.thrown = "IPFS upload failed: Invalid CID format"]
       ELSE gw' = [gw EXCEPT !.pc = "head", !.cid = c,
                      !.head = <<generateEtherscanCompatibleUrl(Join(c.chars), "ipfs_io")>>]
    /\ UNCHANGED <<mock, cidInput, valid, vars, client, contractHook>>

\* await fetch(primaryUrl, HEAD): ok returns; otherwise the other gateways
\* are tried with findAccessibleGateway
realUploadToIPFS_head ==
    /\ gw.pc = "head"
    /\ IF ok(gw.responses["https://ipfs.io/ipfs/"])
       THEN gw' = [gw EXCEPT !.pc = "returned", !.returned = gw.head[1]]
       ELSE gw' = [gw EXCEPT !.pc = "fetch", !.i = 1,
                             !.probes = <<GatewayUrl(gw, 1)>>]
    /\ UNCHANGED <<mock, cidInput, valid, vars, client, contractHook>>

\* ---------------------------------------------------------- useContract
\* number of invocations of fetchContractInfo one hook instance sees
MaxReads == 3
Reads == 1..MaxReads

\* nothing of ipfsService is running
serviceIdle ==
    /\ cidInput = Str(<<>>)
    /\ valid = <<>>
    /\ gw = NoCall
    /\ mock = NoMock

\* a fetchContractInfo invocation: the account of its closure, whether its
\* signal is aborted, and where it is
IdleRead == [pc |-> "idle", currentAccount |-> ZERO, aborted |-> FALSE]
NoContractInfo == [mintingEnabled |-> FALSE, mintPrice |-> 0, currentSupply |-> 0,
                   read |-> 0]

\* no error: useState(null)
NoContractError == [message |-> "", read |-> 0]

\* useContract(currentAccount): the initial values of useState and useRef
useContract ==
    /\ walletAccount = ZERO
    /\ contractInfo = NoContractInfo
    /\ loading = FALSE
    /\ contractError = NoContractError
    /\ fetchedRef = FALSE
    /\ abortControllerRef = 0
    /\ reads = [r \in Reads |-> IdleRead]
    /\ mounted = TRUE

\* the refs and states of the hook as one value, for the code that runs
\* several of its functions in a row
contractHookValue ==
    [currentAccount |-> walletAccount, contractInfo |-> contractInfo,
     loading |-> loading, error |-> contractError, fetchedRef |-> fetchedRef,
     abortControllerRef |-> abortControllerRef, reads |-> reads]

\* the states and refs after the handler has run
commit(h) ==
    /\ walletAccount' = h.currentAccount
    /\ contractInfo' = h.contractInfo
    /\ loading' = h.loading
    /\ contractError' = h.error
    /\ fetchedRef' = h.fetchedRef
    /\ abortControllerRef' = h.abortControllerRef
    /\ reads' = h.reads

\* the invocations not made yet
IdleReads(h) == {r \in Reads : h.reads[r].pc = "idle"}

\* fetchContractInfo gets past its first line
fetches(h) == ~(h.currentAccount = ZERO \/ h.fetchedRef \/ h.loading)

\* abortControllerRef.current.abort(): the signal of that read is aborted
abort(h) ==
    IF h.abortControllerRef = 0 THEN h
    ELSE [h EXCEPT !.reads[h.abortControllerRef].aborted = TRUE]

\* an aborted read that was waiting for Promise.race: the abort listener
\* rejects with 'Request aborted', the catch returns, and finally runs
aborted(h, r) ==
    IF r = 0 \/ h.reads[r].pc # "race" \/ ~h.reads[r].aborted THEN h
    ELSE [h EXCEPT !.reads[r].pc = "done", !.loading = FALSE,
                   !.abortControllerRef = 0]

\* fetchContractInfo() up to await Promise.race([...]); without
\* window.ethereum it throws before, and catch and finally run
fetchContractInfo(h) ==
    IF ~fetches(h) THEN h
    ELSE LET r == CHOOSE i \in IdleReads(h) : \A j \in IdleReads(h) : i <= j
             h1 == abort(h)
         IN  IF ~ethereum
             THEN [h1 EXCEPT !.fetchedRef = TRUE, !.loading = FALSE,
                             !.abortControllerRef = 0,
                             !.error = [message |-> "Ethereum provider not found",
                                        read |-> r],
                             !.reads[r] = [pc |-> "done",
                                           currentAccount |-> h.currentAccount,
                                           aborted |-> FALSE]]
             ELSE [h1 EXCEPT !.fetchedRef = TRUE, !.loading = TRUE,
                             !.abortControllerRef = r,
                             !.error = NoContractError,
                             !.reads[r] = [pc |-> "race",
                                           currentAccount |-> h.currentAccount,
                                           aborted |-> FALSE]]

\* the account-change effect: reset fetchedRef, abort, clear info and error
accountChangedNoAbort(h) ==
    [h EXCEPT !.fetchedRef = FALSE, !.contractInfo = NoContractInfo,
              !.error = NoContractError]
accountChanged(h) ==
    [abort(h) EXCEPT !.fetchedRef = FALSE, !.contractInfo = NoContractInfo,
                     !.error = NoContractError]

\* the automatic-fetch effect
autoFetch(h) ==
    IF h.currentAccount # ZERO /\ ~h.fetchedRef THEN fetchContractInfo(h) ELSE h

\* the currentAccount prop changes: render, the two effects in their order,
\* then the continuation of the read the first effect aborted
setCurrentAccount(acc) ==
    /\ mounted
    /\ acc # walletAccount
    /\ LET h == [contractHookValue EXCEPT !.currentAccount = acc]
           h2 == autoFetch(accountChanged(h))
       IN  /\ (fetches(accountChanged(h)) => IdleReads(h) # {})
           /\ commit(aborted(h2, abortControllerRef))
    /\ UNCHANGED <<mounted, vars, client, service>>

\* the automatic-fetch effect after a render that changed fetchContractInfo
\* (loading went back to false)
effect_fetchContractInfo ==
    /\ mounted
    /\ walletAccount # ZERO /\ ~fetchedRef
    /\ fetches(contractHookValue)
    /\ IdleReads(contractHookValue) # {}
    /\ commit(autoFetch(contractHookValue))
    /\ UNCHANGED <<mounted, vars, client, service>>

\* refetchContractInfo()
refetchContractInfo ==
    /\ mounted
    /\ LET h == [contractHookValue EXCEPT !.fetchedRef = FALSE,
                                          !.error = NoContractError]
       IN  /\ (fetches(h) => IdleReads(h) # {})
           /\ commit(fetchContractInfo(h))
    /\ UNCHANGED <<mounted, vars, client, service>>

\* Promise.race resolves with the values of the contract calls: unless the
\* signal is aborted the data is stored; finally runs
contractCalls_resolve(r) ==
    /\ reads[r].pc = "race"
    /\ LET contractData == [mintingEnabled |-> mintingEnabled, mintPrice |-> mintPrice,
                            currentSupply |-> totalSupply, read |-> r]
           h == [contractHookValue EXCEPT !.reads[r].pc = "done", !.loading = FALSE,
                                          !.abortControllerRef = 0]
       IN  IF reads[r].aborted THEN commit(h)
           ELSE commit([h EXCEPT !.contractInfo = contractData])
    /\ UNCHANGED <<mounted, vars, client, service>>

\* Promise.race rejects: a contract call failed, or the 15 s timeout passed
contractCalls_reject(r, message) ==
    /\ reads[r].pc = "race"
    /\ commit([contractHookValue EXCEPT
                  !.reads[r].pc = "done", !.loading = FALSE,
                  !.abortControllerRef = 0,
                  !.error = [message |-> message, read |-> r]])
    /\ UNCHANGED <<mounted, vars, client, service>>

\* the component unmounts: the cleanup aborts the running read
unmount ==
    /\ mounted
    /\ mounted' = FALSE
    /\ commit(aborted(abort(contractHookValue), abortControllerRef))
    /\ UNCHANGED <<vars, client, service>>

\* ------------------------------------------------------- specifications
\* every external function of the registry, called by any account
Next ==
    \/ \E s \in Accounts, v \in Values, u \in MetadataURIs :
           makeAnEpicNFT(s, v, u) /\ UNCHANGED <<client, rest>>
    \/ \E s \in Accounts, v \in Values, n \in Names, d \in Descriptions,
          h \in IpfsHashes : mintIpfsNFT(s, v, n, d, h) /\ UNCHANGED <<client, rest>>
    \/ \E s \in Accounts, v \in Values, n \in Names, d \in Descriptions,
          h \in IpfsHashes, u \in MetadataURIs :
           mintIpfsNFTWithMetadata(s, v, n, d, h, u) /\ UNCHANGED <<client, rest>>
    \/ \E s \in Accounts, to \in Recipients, u \in MetadataURIs :
           ownerMint(s, to, u) /\ UNCHANGED <<client, rest>>
    \/ \E s \in Accounts, to \in Recipients, n \in Names, d \in Descriptions,
          h \in IpfsHashes : ownerMintIpfs(s, to, n, d, h) /\ UNCHANGED <<client, rest>>
    \/ \E s \in Accounts, e \in BOOLEAN : toggleMinting(s, e) /\ UNCHANGED <<client, rest>>
    \/ \E s \in Accounts, p \in 0..MaxPrice : updateMintPrice(s, p) /\ UNCHANGED <<client, rest>>
    \/ \E s \in Accounts : withdraw(s) /\ UNCHANGED <<client, rest>>
    \/ mineBlock /\ UNCHANGED <<client, rest>>

\* the registry on its own: the hook stays as it was created
SpecInit ==
    /\ Init
    /\ useNftMinting
    /\ ethereum = TRUE
    /\ pinataAvailable = TRUE
    /\ serviceIdle
    /\ useContract

Spec == SpecInit /\ [][Next]_allvars

\* the account the wallet hands to the hook: none, or a user's
WalletAccounts == (Accounts \ {owner}) \cup {ZERO}

MintInit ==
    /\ Init
    /\ useNftMinting
    /\ ethereum \in BOOLEAN
    /\ pinataAvailable \in BOOLEAN
    /\ serviceIdle
    /\ useContract

\* the steps of a running invocation
mintNFT_steps ==
    \/ \E a \in Attempts : mintNFT_uploadNFTData(a)
    \/ \E a \in Attempts : mintNFT_getSigner(a)
    \/ \E a \in Attempts : mintNFT_mintingEnabled(a)
    \/ \E a \in Attempts : mintNFT_mintPrice(a)
    \/ \E a \in Attempts : mintNFT_getCurrentTokenId(a)
    \/ \E a \in Attempts : mintNFT_getBalance(a)
    \/ \E a \in Attempts : mintNFT_estimateGas(a)
    \/ \E a \in Attempts : mintNFT_send(a)
    \/ \E a \in Attempts : mintNFT_wait(a)
    \/ \E a \in Attempts : mintNFT_fallback(a)
    \/ \E a \in Attempts : mintNFT_lastResort(a)
    \/ \E a \in Attempts : mintNFT_ownerOf(a)

\* FileUpload.jsx: the mint button is disabled while uploading
buttonEnabled == ~uploading

\* the orchestrator driven through the mint button, which is disabled while
\* an invocation runs, and next to it the transactions of the owner
MintNext ==
    \/ \E a \in Attempts, file \in Files, account \in WalletAccounts :
           buttonEnabled /\ mintNFT(a, file, account)
    \/ \E a \in Attempts, file \in Files, account \in WalletAccounts :
           buttonEnabled /\ handleMintClick(a, file, account)
    \/ mintNFT_steps
    \/ clearMintedInfo
    \/ clearError
    \/ \E e \in BOOLEAN : toggleMinting(owner, e) /\ UNCHANGED <<client, rest>>
    \/ \E p \in 0..MaxPrice : updateMintPrice(owner, p) /\ UNCHANGED <<client, rest>>
    \/ ownerMint(owner, owner, "ipfs://meta") /\ UNCHANGED <<client, rest>>

MintSpec == MintInit /\ [][MintNext]_allvars

\* the hook called directly, with nothing between two calls of mintNFT; no
\* other party sends transactions
OverlapNext ==
    \/ \E a \in Attempts, file \in Files, account \in WalletAccounts :
           mintNFT(a, file, account)
    \/ mintNFT_steps

OverlapSpec == MintInit /\ [][OverlapNext]_allvars

\* isValidCID on its own: the arguments it is tried with are strings around
\* the lengths of the two patterns, and values that are not strings
Slack == 1
BodyLengths ==
    ((CIDV0_BODY - Slack)..(CIDV0_BODY + Slack)) \cup
    ((CIDV1_BODY - Slack)..(CIDV1_BODY + Slack))
Prefixes == {<<"Q", "m">>, <<"b", "a">>, <<"Q", "M">>, <<"q", "m">>}
FillChars == {"a", "z", "l", "A", "Z", "I", "O", "0", "1", "9", "-"}
Fill(c, n) == [i \in 1..n |-> c]
CidInputs ==
    NotAString \cup {Str(<<>>)} \cup
    {Str(p \o Fill(c, n - 1) \o <<d>>) :
        p \in Prefixes, c \in FillChars, d \in FillChars, n \in BodyLengths}

CidInit ==
    /\ Init
    /\ useNftMinting
    /\ ethereum = TRUE
    /\ pinataAvailable = TRUE
    /\ useContract
    /\ gw = NoCall
    /\ mock = NoMock
    /\ valid = <<>>
    /\ cidInput \in CidInputs

CidNext == isValidCID_call

CidSpec == CidInit /\ [][CidNext]_allvars

\* gateway resolution: called directly, or by an upload
ValidCid == Str(<<"Q", "m">> \o Fill("a", CIDV0_BODY))
MalformedCid == Str(<<"n", "o", "t", "-", "a", "-", "c", "i", "d">>)
GatewayCids == {ValidCid, MalformedCid}

GatewayInit ==
    /\ Init
    /\ useNftMinting
    /\ ethereum = TRUE
    /\ pinataAvailable = TRUE
    /\ useContract
    /\ serviceIdle

GatewayNext ==
    \/ \E c \in GatewayCids, responses \in [Endpoints -> Statuses] :
           findAccessibleGateway(c, responses)
    \/ findAccessibleGateway_fetch
    \/ \E responses \in [Endpoints -> Statuses] :
           realUploadToIPFS_pinFileToIPFS(responses)
    \/ \E c \in GatewayCids, rejected \in BOOLEAN : realUploadToIPFS_IpfsHash(c, rejected)
    \/ realUploadToIPFS_head

GatewaySpec == GatewayInit /\ [][GatewayNext]_allvars

\* the useContract hook: the wallet switches accounts, reads resolve or
\* fail, the user asks for a refresh, and the owner changes the configuration
ContractInit ==
    /\ Init
    /\ useNftMinting
    /\ ethereum \in BOOLEAN
    /\ pinataAvailable = TRUE
    /\ serviceIdle
    /\ useContract

ContractNext ==
    \/ effect_fetchContractInfo
    \/ \E acc \in Accounts \cup {ZERO} : setCurrentAccount(acc)
    \/ refetchContractInfo
    \/ \E r \in Reads : contractCalls_resolve(r)
    \/ \E r \in Reads, message \in {"Contract call timeout", "network error"} :
           contractCalls_reject(r, message)
    \/ unmount
    \/ \E e \in BOOLEAN : toggleMinting(owner, e) /\ UNCHANGED <<client, rest>>

ContractSpec == ContractInit /\ [][ContractNext]_allvars

\* every read settles (the 15 s timeout rejects it at the latest) and React
\* runs a pending effect
FairContractSpec ==
    /\ ContractSpec
    /\ WF_allvars(effect_fetchContractInfo)
    /\ WF_allvars(\E r \in Reads : contractCalls_resolve(r))

\* the mock uploads on their own: file names of several lengths, one of them
\* with a character above U+00FF, at the times of a span of Date.now()
NowDigits == 2
NowPrefix ==
    <<"1", "7", "6", "2", "3", "5", "0", "0", "0", "0", "0", "0", "0">>
RECURSIVE DigitStrings(_)
DigitStrings(n) ==
    IF n = 0 THEN {<<>>}
    ELSE {Append(s, Digits[d]) : s \in DigitStrings(n - 1), d \in DOMAIN Digits}
Nows == {SubSeq(NowPrefix, 1, 13 - NowDigits) \o s : s \in DigitStrings(NowDigits)}
MockFileNames ==
    { <<"a", ".", "p", "n", "g">>,
      <<"A", "r", "t", ".", "p", "n", "g">>,
      <<"m", "y", "-", "f", "i", "r", "s", "t", "-", "n", "f", "t", "-",
        "a", "r", "t", "w", "o", "r", "k", ".", "p", "n", "g">>,
      <<"h", "o", "l", "i", "d", "a", "y", "_", "p", "h", "o", "t", "o",
        "_", "2", "0", "2", "4", "_", "f", "i", "n", "a", "l", ".", "j",
        "p", "e", "g">>,
      <<WideChar, ".", "p", "n", "g">> }
MockFiles == {[present |-> TRUE, name |-> n] : n \in MockFileNames}
\* file.name.replace(/\.[^/.]+$/, ""), one character per element
fileNameChars(file) ==
    IF ExtensionAt(file.name) = {} THEN file.name
    ELSE SubSeq(file.name, 1, (CHOOSE i \in ExtensionAt(file.name) : TRUE) - 1)
MockMetadata ==
    {[name |-> fileNameChars(f),
      description |-> fileNameChars(f) \o
          <<" ", "-", " ", "C", "r", "e", "a", "t", "e", "d", " ", "w", "i", "t", "h", " ", "N", "F", "T", " ", "M", "a", "k", "e", "r">>,
      image |-> <<"h", "t", "t", "p", "s", ":", "/", "/", "w", "3", "s", ".",
              "l", "i", "n", "k", "/", "i", "p", "f", "s", "/", "Q", "m",
              "M", "o", "c", "k">>]
        : f \in MockFiles}

MockInit ==
    /\ Init
    /\ useNftMinting
    /\ ethereum = TRUE
    /\ pinataAvailable = FALSE
    /\ useContract
    /\ serviceIdle

MockNext ==
    \/ \E file \in MockFiles, now \in Nows : mockUploadToIPFS_call(file, now)
    \/ \E metadata \in MockMetadata, now \in Nows : mockUploadMetadata_call(metadata, now)

MockSpec == MockInit /\ [][MockNext]_allvars

\* ================================================================ claims
PaidMints == {"makeAnEpicNFT", "mintIpfsNFT", "mintIpfsNFTWithMetadata"}
OwnerMints == {"ownerMint", "ownerMintIpfs"}
MintFns == PaidMints \cup OwnerMints
OwnerOnlyFns == OwnerMints \cup {"updateMintPrice", "toggleMinting", "withdraw"}

\* a step that executes a transaction (mining a block moves the timestamp,
\* a transaction never does)
IsTransaction == blockTimestamp' = blockTimestamp

Issued == {t \in StorageIds : _owners[t] # ZERO}

\* the part of the registry a token issuance writes
issuance == <<_tokenIdCounter, _owners, nftInfo, _tokenURIs>>

\* C1: token ids are issued as 1, 2, 3, ... in the order of the transactions:
\* the counter never decreases; a step issues at most one id, that id is the
\* counter's value before the step, it had no owner yet, and the counter ends
\* one above it; no issuing or admin call issues an id again or hands an
\* issued id to another account.
C1_IdsIssuedInOrder ==
    [][ /\ _tokenIdCounter' >= _tokenIdCounter
        /\ \A t \in StorageIds :
              /\ (_owners[t] # ZERO) => (_owners'[t] = _owners[t])
              /\ (_owners[t] = ZERO /\ _owners'[t] # ZERO) =>
                    /\ t = _tokenIdCounter
                    /\ _tokenIdCounter' = t + 1
                    /\ \A u \in StorageIds \ {t} : _owners'[u] = _owners[u]
        /\ IsTransaction =>
              \A i \in DOMAIN receipt'.logs :
                  (receipt'.logs[i].event = "Transfer" /\ receipt'.logs[i].from = ZERO) =>
                      /\ receipt'.logs[i].tokenId = _tokenIdCounter
                      /\ _owners[_tokenIdCounter] = ZERO
                      /\ _owners'[_tokenIdCounter] = receipt'.logs[i].to
      ]_vars

\* two tokens issued to two different callers
C1_Witness ==
    /\ _owners[1] # ZERO
    /\ _owners[2] # ZERO
    /\ _owners[1] # _owners[2]
    /\ _tokenIdCounter = 3

\* C2: every successful mint issues the id the counter had before the call to
\* the recipient, leaves the counter one higher and totalSupply equal to the
\* id just issued (the counter minus one); on a fresh registry that is token 1
\* and totalSupply 1.
C2_MintIssuesCounter ==
    [][ (IsTransaction /\ lastTx'.fn \in MintFns /\ receipt'.status = 1) =>
            /\ _owners[_tokenIdCounter] = ZERO
            /\ _owners'[_tokenIdCounter] = lastTx'.to
            /\ lastTx'.to # ZERO
            /\ _tokenIdCounter' = _tokenIdCounter + 1
            /\ totalSupply' = _tokenIdCounter
            /\ totalSupply' = _tokenIdCounter' - 1
            /\ receipt'.logs[1] = Transfer(ZERO, lastTx'.to, _tokenIdCounter)
      ]_vars

\* the first paid mint of a fresh registry went through: token 1 belongs to
\* the caller and totalSupply is 1
C2_Witness ==
    /\ lastTx.fn \in PaidMints
    /\ receipt.status = 1
    /\ lastTx.sender # owner
    /\ _owners[1] = lastTx.sender
    /\ totalSupply = 1

\* C3: the counter never exceeds MAX_SUPPLY + 1 and at most MAX_SUPPLY tokens
\* exist, however paid and owner-issued mints are interleaved.
C3_SupplyCap ==
    /\ _tokenIdCounter <= MAX_SUPPLY + 1
    /\ Cardinality(Issued) <= MAX_SUPPLY

\* the cap is reached by a paid and an owner-issued token together and a
\* further mint was turned down
C3_Witness ==
    /\ _tokenIdCounter = MAX_SUPPLY + 1
    /\ Cardinality(Issued) = MAX_SUPPLY
    /\ contractBalance > 0
    /\ \E t \in Issued : nftInfo[t].description = ""
    /\ lastTx.fn \in MintFns
    /\ receipt.status = 0

\* a mint attempt made by a caller the function admits: anyone for the paid
\* mints, the owner for ownerMint and ownerMintIpfs
AdmittedMint(tx) ==
    \/ tx.fn \in PaidMints
    \/ tx.fn \in OwnerMints /\ tx.sender = owner

\* C4: while mintingEnabled is false every mint attempt fails with
\* MintingDisabled and leaves the counter, the ownership table, the token
\* records and the contract balance as they were.
C4_DisabledMintFails ==
    [][ (IsTransaction /\ ~mintingEnabled /\ AdmittedMint(lastTx')) =>
            /\ receipt'.status = 0
            /\ receipt'.error = "MintingDisabled"
            /\ UNCHANGED <<issuance, contractBalance, balances>>
      ]_vars

\* C5 as first stated: a paid mint sent with less than the fee fails with
\* InsufficientPayment in every registry state, and issues no token.
C5_UnderpaidIsInsufficientPayment ==
    [][ (IsTransaction /\ lastTx'.fn \in PaidMints /\ lastTx'.value < mintPrice) =>
            /\ receipt'.error = "InsufficientPayment"
            /\ UNCHANGED issuance
      ]_vars

\* C5, amended: a paid mint sent with less than the fee always fails and
\* changes nothing; the error is InsufficientPayment whenever minting is
\* enabled and the counter is within the cap, MintingDisabled when the switch
\* is off, and MaxSupplyExceeded when the switch is on and the cap is reached.
C5_UnderpaidFails ==
    [][ (IsTransaction /\ lastTx'.fn \in PaidMints /\ lastTx'.value < mintPrice) =>
            /\ receipt'.status = 0
            /\ UNCHANGED registry
            /\ receipt'.error =
                  IF ~mintingEnabled THEN "MintingDisabled"
                  ELSE IF _tokenIdCounter > MAX_SUPPLY THEN "MaxSupplyExceeded"
                  ELSE "InsufficientPayment"
      ]_vars

\* an underpaid mint was turned down with InsufficientPayment
C5_Witness ==
    /\ lastTx.fn \in PaidMints
    /\ lastTx.value < mintPrice
    /\ mintingEnabled
    /\ _tokenIdCounter <= MAX_SUPPLY
    /\ receipt.status = 0
    /\ receipt.error = "InsufficientPayment"

\* C6 as first stated: once the counter is above MAX_SUPPLY every mint call
\* (by a caller the function admits) fails with MaxSupplyExceeded and issues
\* no token.
C6_ExhaustedIsSupplyExceeded ==
    [][ (IsTransaction /\ _tokenIdCounter > MAX_SUPPLY /\ AdmittedMint(lastTx')) =>
            /\ receipt'.error = "MaxSupplyExceeded"
            /\ UNCHANGED issuance
      ]_vars

\* C6, amended: once the counter is above MAX_SUPPLY every mint call fails and
\* issues no token; the error is MaxSupplyExceeded for a paid mint while
\* minting is enabled and for an owner-issue call by the owner, MintingDisabled
\* for a paid mint while the switch is off, and OwnableUnauthorizedAccount for
\* an owner-issue call by anyone else.
C6_ExhaustedFails ==
    [][ (IsTransaction /\ _tokenIdCounter > MAX_SUPPLY /\ lastTx'.fn \in MintFns) =>
            /\ receipt'.status = 0
            /\ UNCHANGED registry
            /\ receipt'.error =
                  IF lastTx'.fn \in PaidMints
                  THEN (IF mintingEnabled THEN "MaxSupplyExceeded"
                        ELSE "MintingDisabled")
                  ELSE (IF lastTx'.sender = owner THEN "MaxSupplyExceeded"
                        ELSE "OwnableUnauthorizedAccount")
      ]_vars

\* with the cap reached, an owner-issue call by the owner was turned down
\* with MaxSupplyExceeded
C6_Witness ==
    /\ _tokenIdCounter > MAX_SUPPLY
    /\ lastTx.fn \in OwnerMints
    /\ lastTx.sender = owner
    /\ receipt.error = "MaxSupplyExceeded"

\* C7: ownerMint and ownerMintIpfs go through only for the owner, without
\* payment, and only when the checks of the paid mints hold: minting enabled,
\* counter within the cap, and no empty uri / name / description / hash.
C7_OwnerIssueChecks ==
    [][ (IsTransaction /\ lastTx'.fn \in OwnerMints /\ receipt'.status = 1) =>
            /\ lastTx'.sender = owner
            /\ lastTx'.value = 0
            /\ UNCHANGED <<contractBalance, balances>>
            /\ _tokenIdCounter <= MAX_SUPPLY
            /\ mintingEnabled
            /\ lastTx'.fn = "ownerMint" =>
                  ~IsEmpty(_tokenURIs'[_tokenIdCounter])
            /\ lastTx'.fn = "ownerMintIpfs" =>
                  /\ ~IsEmpty(nftInfo'[_tokenIdCounter].name)
                  /\ ~IsEmpty(nftInfo'[_tokenIdCounter].description)
                  /\ nftInfo'[_tokenIdCounter].imageURI # ImageURI("")
      ]_vars

\* a call that passes every check except for its empty arguments
OtherwiseValidPaid(value) ==
    mintingEnabled /\ _tokenIdCounter <= MAX_SUPPLY /\ value >= mintPrice

OtherwiseValidOwner(sender, to) ==
    mintingEnabled /\ _tokenIdCounter <= MAX_SUPPLY /\ sender = owner /\ to # ZERO

Rejected(err) == receipt'.status = 0 /\ receipt'.error = err /\ UNCHANGED registry

\* C8: a mint call that is valid but for one empty required argument fails
\* with the error of that argument (uri: InvalidTokenURI, name: EmptyName,
\* description: EmptyDescription, hash: InvalidIPFSHash) and changes nothing.
C8_EmptyArgumentRejected ==
    [][ /\ \A s \in Accounts, v \in Values :
              (OtherwiseValidPaid(v) /\ makeAnEpicNFT(s, v, "")) =>
                  Rejected("InvalidTokenURI")
        /\ \A s \in Accounts, v \in Values :
              /\ (OtherwiseValidPaid(v) /\ mintIpfsNFT(s, v, "", "desc", "QmHash")) =>
                    Rejected("EmptyName")
              /\ (OtherwiseValidPaid(v) /\ mintIpfsNFT(s, v, "Art", "", "QmHash")) =>
                    Rejected("EmptyDescription")
              /\ (OtherwiseValidPaid(v) /\ mintIpfsNFT(s, v, "Art", "desc", "")) =>
                    Rejected("InvalidIPFSHash")
        /\ \A s \in Accounts, v \in Values :
              /\ (OtherwiseValidPaid(v)
                    /\ mintIpfsNFTWithMetadata(s, v, "", "desc", "QmHash", "ipfs://meta")) =>
                    Rejected("EmptyName")
              /\ (OtherwiseValidPaid(v)
                    /\ mintIpfsNFTWithMetadata(s, v, "Art", "", "QmHash", "ipfs://meta")) =>
                    Rejected("EmptyDescription")
              /\ (OtherwiseValidPaid(v)
                    /\ mintIpfsNFTWithMetadata(s, v, "Art", "desc", "", "ipfs://meta")) =>
                    Rejected("InvalidIPFSHash")
              /\ (OtherwiseValidPaid(v)
                    /\ mintIpfsNFTWithMetadata(s, v, "Art", "desc", "QmHash", "")) =>
                    Rejected("InvalidTokenURI")
        /\ \A s \in Accounts, to \in Recipients :
              (OtherwiseValidOwner(s, to) /\ ownerMint(s, to, "")) =>
                  Rejected("InvalidTokenURI")
        /\ \A s \in Accounts, to \in Recipients :
              /\ (OtherwiseValidOwner(s, to) /\ ownerMintIpfs(s, to, "", "desc", "QmHash")) =>
                    Rejected("EmptyName")
              /\ (OtherwiseValidOwner(s, to) /\ ownerMintIpfs(s, to, "Art", "", "QmHash")) =>
                    Rejected("EmptyDescription")
              /\ (OtherwiseValidOwner(s, to) /\ ownerMintIpfs(s, to, "Art", "desc", "")) =>
                    Rejected("InvalidIPFSHash")
      ]_vars

C10_OnlyOwner ==
    [][ (IsTransaction /\ lastTx'.fn \in OwnerOnlyFns /\ lastTx'.sender # owner) =>
            /\ receipt'.status = 0
            /\ receipt'.error = "OwnableUnauthorizedAccount"
            /\ UNCHANGED registry
      ]_vars

\* an account that is not the owner called withdraw while the contract held
\* funds, and was rejected
C10_Witness ==
    /\ lastTx.fn = "withdraw"
    /\ lastTx.sender # owner
    /\ contractBalance > 0
    /\ receipt.status = 0
    /\ receipt.error = "OwnableUnauthorizedAccount"

\* C11: after a successful mintIpfsNFT(name, description, hash) that issued
\* token t, the record of t holds the supplied name and description, the
\* caller as minter, and imageURI = "ipfs://" followed by the hash.
C11_RoundTrip ==
    [][ \A s \in Accounts, v \in Values, n \in Names, d \in Descriptions,
           h \in IpfsHashes :
            (mintIpfsNFT(s, v, n, d, h) /\ receipt'.status = 1) =>
                /\ nftInfo'[_tokenIdCounter].name = n
                /\ nftInfo'[_tokenIdCounter].description = d
                /\ nftInfo'[_tokenIdCounter].minter = s
                /\ nftInfo'[_tokenIdCounter].imageURI = "ipfs://" \o h
      ]_vars

\* C12: an issued token's record and token URI never change again, and a
\* record is only ever written for the id being issued in that step.
C12_RecordImmutable ==
    [][ \A t \in StorageIds :
            /\ (_owners[t] # ZERO) =>
                  /\ nftInfo'[t] = nftInfo[t]
                  /\ _tokenURIs'[t] = _tokenURIs[t]
            /\ (nftInfo'[t] # nftInfo[t] \/ _tokenURIs'[t] # _tokenURIs[t]) =>
                  /\ t = _tokenIdCounter
                  /\ _owners[t] = ZERO
                  /\ _owners'[t] # ZERO
      ]_vars

\* token 1 carries a record; after it a second token was issued, minting was
\* switched off and the owner withdrew, and the record is still there
C12_Witness ==
    /\ nftInfo[1].name = "Art"
    /\ nftInfo[1].minter # ZERO
    /\ _tokenURIs[1] # ""
    /\ _tokenIdCounter = 3
    /\ ~mintingEnabled
    /\ lastTx.fn = "withdraw"
    /\ receipt.status = 1

EventsNamed(logs, name) == {i \in DOMAIN logs : logs[i].event = name}

\* the issuing functions that take a content hash
ContentMints == {"mintIpfsNFT", "mintIpfsNFTWithMetadata", "ownerMintIpfs"}

\* C13: every successful issuance emits exactly one NFTMinted carrying the
\* new tokenId and the recipient; an issuance with a content hash also emits
\* one IPFSNFTMinted with the tokenId and the recipient; a failed call emits
\* no event.
C13_MintEvents ==
    [][ (IsTransaction /\ lastTx'.fn \in MintFns) =>
            IF receipt'.status = 1
            THEN /\ Cardinality(EventsNamed(receipt'.logs, "NFTMinted")) = 1
                 /\ \A i \in EventsNamed(receipt'.logs, "NFTMinted") :
                       /\ receipt'.logs[i].tokenId = _tokenIdCounter
                       /\ receipt'.logs[i].minter = lastTx'.to
                 /\ lastTx'.fn \in ContentMints =>
                       /\ Cardinality(EventsNamed(receipt'.logs, "IPFSNFTMinted")) = 1
                       /\ \A i \in EventsNamed(receipt'.logs, "IPFSNFTMinted") :
                             /\ receipt'.logs[i].tokenId = _tokenIdCounter
                             /\ receipt'.logs[i].minter = lastTx'.to
            ELSE receipt'.logs = <<>>
      ]_vars

\* ------------------------------------------------- claims on the orchestrator
Range(seq) == {seq[i] : i \in DOMAIN seq}

\* the await the invocation completed last, "" when none
LastDone(f) == IF f.done = <<>> THEN "" ELSE f.done[Len(f.done)]

\* the invocation has started and has neither returned nor thrown
InFlight(a) == calls[a].pc \notin {"idle", "returned", "thrown"}
\* the invocation takes a step
Stepped(a) == calls'[a] # calls[a]
\* the invocation has run the dry run / has a transaction broadcast
Estimated(f) == "estimateGas" \in Range(f.done)
Broadcast(f) == f.pc = "wait" \/ "wait" \in Range(f.done)

\* C14: at no time are two invocations of mintNFT of one hook instance in
\* flight: a call made while another is unresolved starts no second pipeline.
C14_SingleFlight == Cardinality({a \in Attempts : InFlight(a)}) <= 1

\* C15: an invocation without a file, without an account or without a wallet
\* provider makes no network call: no upload to the pinning provider, no
\* gateway probe, no ledger RPC.
C15_ValidationBeforeNetwork ==
    \A a \in Attempts :
        ( /\ calls[a].pc # "idle"
          /\ \/ ~calls[a].file.present
             \/ calls[a].currentAccount = ZERO
             \/ ~ethereum ) =>
            calls[a].network = {}

\* the invocation fails here, locally: it throws, surfaces an error, has run
\* no dry run and broadcast nothing, and the ledger is untouched
FailsLocally(a) ==
    /\ calls'[a].pc = "thrown"
    /\ calls'[a].thrown # NoError
    /\ error' # <<>>
    /\ ~Estimated(calls'[a])
    /\ ~Broadcast(calls'[a])
    /\ "send" \notin Range(calls'[a].done)
    /\ UNCHANGED vars

\* C16: when the preflight has read mintingEnabled = false or a counter above
\* MAX_SUPPLY, or finds the caller's balance below the fee it read, mintNFT
\* fails locally; the invocation runs no dry run and broadcasts nothing then
\* or later.
C16_PreflightFailsLocally ==
    [][ \A a \in Attempts :
            /\ ( /\ calls[a].pc = "getCurrentTokenId"
                 /\ Stepped(a)
                 /\ ~calls[a].mintingEnabled \/ getCurrentTokenId > MAX_SUPPLY ) =>
                   FailsLocally(a)
            /\ ( /\ calls[a].pc = "getBalance"
                 /\ Stepped(a)
                 /\ balances[calls[a].currentAccount] < calls[a].mintPrice ) =>
                   FailsLocally(a)
            /\ calls[a].pc = "thrown" => ~Stepped(a)
      ]_allvars

\* a preflight that read mintingEnabled = false has failed, the ledger having
\* been read
C16_Witness ==
    \E a \in Attempts :
        /\ calls[a].pc = "thrown"
        /\ LastDone(calls[a]) = "getCurrentTokenId"
        /\ ~calls[a].mintingEnabled
        /\ "ledger" \in calls[a].network
        /\ error = MsgMintingDisabled

\* what the dry run of the invocation's call reverts with on the present
\* state, "" when it goes through
DryRun(a) ==
    mintIpfsNFTWithMetadataError(calls[a].currentAccount, calls[a].mintPrice,
        fileName(calls[a].file), description(calls[a].file),
        ipfsHashOf(calls[a].metadataURI), calls[a].metadataURI)

\* the errors mintNFT throws for a dry run reverted with MaxSupplyExceeded
\* whose error object names it, as reason or in the message
SupplyExceededShaped ==
    {gasErrorThrown(CallException("MaxSupplyExceeded", shape)) :
        shape \in {"reason", "message"}}

\* C17: when the dry run reverts, mintNFT fails and the invocation never
\* broadcasts a transaction; when the revert names MaxSupplyExceeded the error
\* surfaced is the max-supply one, not a generic failure.
C17_EstimationRevert ==
    [][ \A a \in Attempts :
            /\ ( /\ calls[a].pc = "estimateGas"
                 /\ Stepped(a)
                 /\ DryRun(a) # "" ) =>
                   /\ calls'[a].pc = "thrown"
                   /\ ~Broadcast(calls'[a])
                   /\ "send" \notin Range(calls'[a].done)
                   /\ UNCHANGED vars
                   /\ error' # <<>>
                   /\ calls'[a].thrown \in SupplyExceededShaped => error' = MsgMaxSupply
            /\ calls[a].pc = "thrown" => ~Stepped(a)
      ]_allvars

\* the preflight passed, the supply ran out, and the dry run's
\* MaxSupplyExceeded was surfaced as the max-supply error
C17_Witness ==
    \E a \in Attempts :
        /\ calls[a].pc = "thrown"
        /\ LastDone(calls[a]) = "estimateGas"
        /\ calls[a].thrown \in SupplyExceededShaped
        /\ _tokenIdCounter > MAX_SUPPLY
        /\ error = MsgMaxSupply

\* C18: when the receipt of the included transaction reports a failed
\* execution, mintNFT fails with the transaction-failed error, which no other
\* step raises, does not resolve an identifier (no fallback read, no ownerOf,
\* no tokenId), returns nothing and sets neither mintedNftInfo nor success.
C18_FailedReceipt ==
    [][ \A a \in Attempts :
            /\ ( /\ calls[a].pc = "wait"
                 /\ Stepped(a)
                 /\ receipt'.status = 0 ) =>
                   /\ calls'[a].pc = "thrown"
                   /\ calls'[a].thrown = NewError(MsgTxFailed)
                   /\ error' = MsgTxFailed
                   /\ calls'[a].tokenId = 0
                   /\ calls'[a].returned = NoNftInfo
                   /\ UNCHANGED mintedNftInfo
                   /\ success' = ""
                   /\ UNCHANGED issuance
            /\ ( /\ Stepped(a)
                 /\ calls'[a].thrown = NewError(MsgTxFailed) ) =>
                   /\ calls[a].pc = "wait"
                   /\ receipt'.status = 0
            /\ calls[a].pc = "thrown" => ~Stepped(a)
      ]_allvars

\* the dry run went through, minting was switched off before the transaction
\* was included, and the invocation failed on the receipt
C18_Witness ==
    \E a \in Attempts :
        /\ calls[a].pc = "thrown"
        /\ LastDone(calls[a]) = "wait"
        /\ Estimated(calls[a])
        /\ calls[a].receipt.status = 0
        /\ calls[a].receipt.error = "MintingDisabled"
        /\ error = MsgTxFailed
        /\ success = ""

\* C19: mintNFT returns a tokenId and sets mintedNftInfo only in the step
\* after ownerOf of exactly that tokenId answered with an owner, on the event
\* path and on the fallback path; if ownerOf fails the invocation throws and
\* returns nothing.
C19_VerifiedBeforeReturn ==
    [][ \A a \in Attempts :
            /\ (Stepped(a) /\ calls'[a].pc = "returned") =>
                   /\ calls[a].pc = "ownerOf"
                   /\ calls'[a].owner # ZERO
                   /\ calls'[a].owner = _owners[calls[a].tokenId]
                   /\ calls'[a].returned.tokenId = calls[a].tokenId
                   /\ mintedNftInfo' = calls'[a].returned
            /\ (Stepped(a) /\ calls[a].pc = "ownerOf" /\ calls'[a].pc # "returned") =>
                   /\ calls'[a].pc = "thrown"
                   /\ calls'[a].returned = NoNftInfo
                   /\ UNCHANGED mintedNftInfo
            /\ calls'[a].pc # "returned" => calls'[a].returned = NoNftInfo
            /\ (mintedNftInfo' # mintedNftInfo /\ mintedNftInfo' # NoNftInfo) =>
                   \E b \in Attempts : Stepped(b) /\ calls'[b].pc = "returned"
      ]_allvars

\* one invocation returned an identifier found by the fallback, and another
\* one failed because ownerOf did not answer
C19_Witness ==
    /\ \E a \in Attempts :
          /\ calls[a].pc = "returned"
          /\ "fallback" \in Range(calls[a].done)
          /\ calls[a].owner # ZERO
    /\ \E b \in Attempts :
          /\ calls[b].pc = "thrown"
          /\ LastDone(calls[b]) = "ownerOf"
          /\ calls[b].returned = NoNftInfo

\* C20: the tokenId a successful invocation returns is the one its own
\* transaction issued (the Transfer of its receipt) and belongs to the minting
\* account, on the event path and on the fallback path.
C20_ReturnsOwnToken ==
    \A a \in Attempts :
        calls[a].pc = "returned" =>
            /\ calls[a].receipt.logs[1] =
                  Transfer(ZERO, calls[a].currentAccount, calls[a].returned.tokenId)
            /\ _owners[calls[a].returned.tokenId] = calls[a].currentAccount

\* the ids that have a record
Recorded == {t \in StorageIds : nftInfo[t] # EmptyNFTInfo}

\* C21: an invocation of mintNFT has at most one transaction executed on the
\* ledger (its steps other than the inclusion leave the ledger alone, and the
\* inclusion happens once), and an invocation that returns had exactly one,
\* which issued exactly one token with exactly one record.
C21_OneTransaction ==
    [][ \A a \in Attempts :
            /\ (Stepped(a) /\ calls[a].pc # "wait") => UNCHANGED vars
            /\ (Stepped(a) /\ calls[a].pc = "wait") =>
                   /\ "wait" \notin Range(calls[a].done)
                   /\ calls'[a].pc # "wait"
                   /\ receipt'.status = 1 =>
                         /\ _tokenIdCounter' = _tokenIdCounter + 1
                         /\ Cardinality({t \in StorageIds : _owners'[t] # _owners[t]}) = 1
                         /\ Cardinality({t \in StorageIds : nftInfo'[t] # nftInfo[t]}) = 1
                         /\ {t \in StorageIds : nftInfo'[t] # nftInfo[t]} =
                               {t \in StorageIds : _owners'[t] # _owners[t]}
                   /\ receipt'.status = 0 => UNCHANGED registry
            /\ calls'[a].pc = "returned" =>
                   /\ Cardinality({i \in DOMAIN calls'[a].done :
                                      calls'[a].done[i] = "wait"}) = 1
                   /\ Cardinality({i \in DOMAIN calls'[a].done :
                                      calls'[a].done[i] = "send"}) = 1
                   /\ calls'[a].receipt.status = 1
      ]_allvars

\* two invocations have returned, each after one transaction of its own, and
\* two tokens with two records exist
C21_Witness ==
    /\ \A a \in Attempts :
          /\ calls[a].pc = "returned"
          /\ calls[a].receipt.status = 1
    /\ Cardinality(Issued) = 2
    /\ Cardinality(Recorded) = 2

\* C22: an invocation of mintNFT that ended in failure has left no effect on
\* the ledger: no transaction of its own was executed successfully, so no
\* token was issued to the caller and no fee was transferred for it.
C22_FailureLeavesNoEffect ==
    \A a \in Attempts :
        calls[a].pc = "thrown" =>
            /\ calls[a].receipt.status = 0
            /\ \A i \in DOMAIN calls[a].receipt.logs :
                  calls[a].receipt.logs[i] # Transfer(ZERO, calls[a].currentAccount,
                                                      calls[a].receipt.logs[i].tokenId)

\* the upload of the invocation has resolved
Uploaded(f) == "uploadNFTData" \in Range(f.done)
\* result.degraded === true
degraded(result) == "degraded" \in DOMAIN result /\ result.degraded = TRUE
\* the token the invocation's own transaction issued
OwnToken(f) == f.receipt.logs[1].tokenId

\* C23: when the authenticated publication fails (or is not configured) the
\* upload still resolves, with a synthetic result tagged degraded = true; a
\* genuine result is never tagged; and a mint that follows a synthetic
\* result stores the synthetic URI on the ledger.
C23_FallbackTagged ==
    \A a \in Attempts :
        Uploaded(calls[a]) =>
            /\ calls[a].metadataURI = calls[a].upload.returned
            /\ calls[a].metadataURI # ""
            /\ calls[a].upload.mock <=> degraded(calls[a].upload.image)
            /\ (calls[a].upload.mock /\ calls[a].receipt.status = 1) =>
                  _tokenURIs[OwnToken(calls[a])] = ipfsUri(MockMetadataCid)

\* the URIs that name the content cid: the protocol URI and the gateway URLs
UrisOf(cid) ==
    {ipfsUri(cid)} \cup
    {generateEtherscanCompatibleUrl(cid, ETHERSCAN_COMPATIBLE_GATEWAYS[i].key) :
        i \in DOMAIN ETHERSCAN_COMPATIBLE_GATEWAYS}

\* C25: the imageURI in the record of a token minted by mintNFT is derived
\* from the identifier of the uploaded image, never from the identifier of
\* the metadata document.
C25_ImageUriFromImageCid ==
    \A a \in Attempts :
        calls[a].receipt.status = 1 =>
            /\ nftInfo[OwnToken(calls[a])].imageURI \in UrisOf(calls[a].upload.image.cid)
            /\ nftInfo[OwnToken(calls[a])].imageURI \notin
                  UrisOf(ipfsHashOf(calls[a].upload.returned))

\* ------------------------------------------------ claims on ipfsService
StartsWith(s, p) == Len(s) >= Len(p) /\ SubSeq(s, 1, Len(p)) = p
DigitChars == {"0", "1", "2", "3", "4", "5", "6", "7", "8", "9"}
UpperCase == {"A", "B", "C", "D", "E", "F", "G", "H", "I", "J", "K", "L", "M",
              "N", "O", "P", "Q", "R", "S", "T", "U", "V", "W", "X", "Y", "Z"}
LowerCase == {"a", "b", "c", "d", "e", "f", "g", "h", "i", "j", "k", "l", "m",
              "n", "o", "p", "q", "r", "s", "t", "u", "v", "w", "x", "y", "z"}
\* base58btc: letters and digits without 0, O, I and l
Base58 == (DigitChars \cup UpperCase \cup LowerCase) \ {"0", "O", "I", "l"}
Tail2(s) == {s[i] : i \in 3..Len(s)}

Reachable(call) ==
    {k \in DOMAIN ETHERSCAN_COMPATIBLE_GATEWAYS :
        ok(call.responses[ETHERSCAN_COMPATIBLE_GATEWAYS[k].url])}
ReachableEndpoints(call) == {e \in Endpoints : ok(call.responses[e])}
Least(S) == CHOOSE k \in S : \A j \in S : k <= j
Resolving == gw.fn = "findAccessibleGateway" /\ gw.pc # "idle"

C28_AllFailFirstPriority ==
    (Resolving /\ gw.pc # "fetch" /\ Reachable(gw) = {}) =>
        /\ gw.pc = "returned"
        /\ gw.returned = gw.probes[1]
        /\ gw.returned = GatewayUrl(gw, 1)

\* C29: for a cid that isValidCID rejects, findAccessibleGateway throws at
\* once and sends no probe.
C29_MalformedNotProbed ==
    (Resolving /\ ~isValidCID(gw.cid)) =>
        /\ gw.probes = <<>>
        /\ gw.pc = "thrown"
        /\ gw.thrown = "InvalidIdentifierFormat"


\* what is shown was stored by a read that was started for the connected
\* account and was not aborted
FromCurrentAccount(shown) ==
    /\ reads[shown.read].currentAccount = walletAccount
    /\ ~reads[shown.read].aborted

\* C30: when the connected account changes while a fetchContractInfo read is
\* in flight, that read is cancelled: it is aborted and over, what it read is
\* never stored as contractInfo and never set as the error; whatever
\* contractInfo or error is shown comes from a read started for the current
\* account; and while an account is connected, a read for it ends up showing
\* its contractInfo or its error (as long as the model has a read left).
C30_SupersededReadCancelled ==
    /\ [][/\ walletAccount' # walletAccount =>
               \A r \in Reads : reads[r].pc = "race" =>
                   /\ reads'[r].aborted /\ reads'[r].pc = "done"
                   /\ contractInfo'.read # r /\ contractError'.read # r
          /\ \A r \in Reads : reads[r].aborted =>
                   /\ contractInfo'.read = r => contractInfo' = contractInfo
                   /\ contractError'.read = r => contractError' = contractError
          /\ (contractInfo.read # 0 => FromCurrentAccount(contractInfo))'
          /\ (contractError.read # 0 => FromCurrentAccount(contractError))'
         ]_allvars
    /\ \A acc \in Accounts :
          (mounted /\ walletAccount = acc)
              ~> \/ ~mounted \/ walletAccount # acc
                 \/ IdleReads(contractHookValue) = {}
                 \/ contractInfo.read # 0 /\ FromCurrentAccount(contractInfo)
                 \/ contractError.read # 0 /\ FromCurrentAccount(contractError)

\* the account changed while read 1 was in flight: read 1 is aborted and the
\* contractInfo shown was stored by a later read for the new account
C30_Witness ==
    /\ reads[1].aborted
    /\ reads[1].currentAccount # walletAccount
    /\ contractInfo.read = 2
    /\ reads[2].currentAccount = walletAccount
    /\ mounted


\* --------------------------------------------- claims on the mint pipeline
\* the awaits of mintNFT in the order of the source text
StepOrder ==
    <<"uploadNFTData", "getSigner", "mintingEnabled", "mintPrice",
      "getCurrentTokenId", "getBalance", "estimateGas", "send", "wait",
      "fallback", "lastResort", "ownerOf">>
Pos(pc) == CHOOSE i \in DOMAIN StepOrder : StepOrder[i] = pc
\* the awaits the invocation has entered, the one it is suspended at last
Entered(f) ==
    IF f.pc \in {"idle", "returned", "thrown"} THEN f.done ELSE Append(f.done, f.pc)
\* the awaits before the transaction is broadcast
BeforeBroadcast ==
    {"uploadNFTData", "getSigner", "mintingEnabled", "mintPrice",
     "getCurrentTokenId", "getBalance", "estimateGas", "send"}

C32_UserRejectionReported ==
    [][ \A a \in Attempts :
            (Stepped(a) /\ calls[a].pc = "send" /\ calls'[a].pc = "thrown") =>
                (error' = MsgUserRejected <=> calls'[a].txError.code = "4001")
      ]_allvars


\* C33: every identifier mockUploadToIPFS and mockUploadMetadata produce is
\* accepted by isValidCID, for every file name, metadata and timestamp.
C33_MockCidAccepted ==
    (mock.pc = "done" /\ ~mock.thrown) => isValidCID(Str(mock.cid))


\* ------------------------------------------- claims on the registry state
\* C34: in every reachable state the token ids that have an owner are exactly
\* 1 .. _tokenIdCounter - 1 (no gaps), totalSupply() is their number, and a
\* step never takes an id out of that set.
C34_IssuedIsPrefix ==
    [][ /\ Issued = 1..(_tokenIdCounter - 1)
        /\ totalSupply = Cardinality(Issued)
        /\ (Issued = 1..(_tokenIdCounter - 1))'
        /\ (totalSupply = Cardinality(Issued))'
        /\ Issued \subseteq Issued'
      ]_allvars

\* two tokens were issued, by a paid mint and by the owner
C34_Witness ==
    /\ Issued = {1, 2}
    /\ totalSupply = 2
    /\ _owners[1] # owner
    /\ _owners[2] = owner
    /\ lastTx.fn = "ownerMintIpfs"


\* C35: the contract balance is the sum of the values sent with the
\* successful paid mints since the last successful withdraw: it is 0 after
\* the deployment, a successful paid mint adds the whole value sent with it
\* (a payment above the fee is not refunded), a successful withdraw leaves 0,
\* and every other step (a failed call, an owner mint, a change of the
\* configuration) leaves it as it is.
C35_BalanceIsPaidSinceWithdraw ==
    [][ /\ lastTx.fn = "constructor" => contractBalance = 0
        /\ IF ~IsTransaction \/ receipt'.status = 0
           THEN UNCHANGED <<contractBalance, balances>>
           ELSE IF lastTx'.fn \in PaidMints
           THEN /\ contractBalance' = contractBalance + lastTx'.value
                /\ balances' = [balances EXCEPT ![lastTx'.sender] = @ - lastTx'.value]
           ELSE IF lastTx'.fn = "withdraw"
           THEN contractBalance' = 0
           ELSE UNCHANGED <<contractBalance, balances>>
        /\ getContractBalance' = contractBalance'
      ]_allvars

\* after a withdraw (the sender holds more than it had at the deployment) a
\* mint was paid with more than the fee: the contract holds exactly what was
\* sent with it
C35_Witness ==
    /\ lastTx.fn \in PaidMints
    /\ receipt.status = 1
    /\ lastTx.value > mintPrice
    /\ lastTx.value > InitialFunds
    /\ contractBalance = lastTx.value


\* C36: frame conditions of the registry. A successful toggleMinting(v) sets
\* mintingEnabled to v and a successful updateMintPrice(p) sets mintPrice to
\* p, and neither changes anything else of the registry (counter, owners,
\* records, token URIs, balances); a mint of any kind and a withdraw change
\* neither mintPrice nor mintingEnabled; a reverted call changes nothing.
\* (The contract owner and MAX_SUPPLY have no assignment in the contract.)
C36_Frames ==
    [][ IsTransaction =>
          IF receipt'.status = 0 THEN UNCHANGED registry
          ELSE IF lastTx'.fn = "toggleMinting"
          THEN /\ mintingEnabled' = receipt'.logs[1].enabled
               /\ UNCHANGED <<_tokenIdCounter, mintPrice, nftInfo, _owners,
                              _tokenURIs, contractBalance, balances>>
          ELSE IF lastTx'.fn = "updateMintPrice"
          THEN /\ mintPrice' = receipt'.logs[1].newPrice
               /\ UNCHANGED <<_tokenIdCounter, mintingEnabled, nftInfo, _owners,
                              _tokenURIs, contractBalance, balances>>
          ELSE /\ lastTx'.fn \in MintFns \cup {"withdraw"}
               /\ UNCHANGED <<mintPrice, mintingEnabled>>
      ]_allvars

\* the owner changed the fee while a token exists and the contract holds a
\* payment
C36_Witness ==
    /\ lastTx.fn = "updateMintPrice"
    /\ receipt.status = 1
    /\ mintPrice # InitialMintPrice
    /\ Issued # {}
    /\ contractBalance > 0
    /\ mintingEnabled


\* the registry is no longer as the preflight of the invocation found it:
\* minting is off, the fee is above the one read, or the supply is used up
Overtaken(f) ==
    \/ ~mintingEnabled
    \/ mintPrice > f.mintPrice
    \/ SupplyExceeded(_tokenIdCounter)

\* C37: when, after the preflight of an invocation has passed, the owner has
\* raised the fee or switched minting off, or the supply has been used up, by
\* the time the dry run or the transaction is executed, the registry rejects
\* it: no token is issued, no payment is kept, and mintNFT throws; it returns
\* nothing and sets neither mintedNftInfo nor success.
C37_StalePreflightRejected ==
    [][ \A a \in Attempts :
            ( /\ Stepped(a)
              /\ calls[a].pc \in {"estimateGas", "wait"}
              /\ Overtaken(calls[a]) ) =>
                /\ calls'[a].pc = "thrown"
                /\ calls[a].pc = "wait" => receipt'.status = 0
                /\ UNCHANGED registry
                /\ calls'[a].returned = NoNftInfo
                /\ UNCHANGED mintedNftInfo
                /\ success' = ""
                /\ error' # <<>>
      ]_allvars

\* the preflight read a fee the owner raised before the transaction was
\* included: the transaction reverted and the invocation failed
C37_Witness ==
    \E a \in Attempts :
        /\ calls[a].pc = "thrown"
        /\ LastDone(calls[a]) = "wait"
        /\ calls[a].receipt.error = "InsufficientPayment"
        /\ calls[a].mintPrice < mintPrice
        /\ Issued = {}
        /\ contractBalance = 0


\* C38: when an invocation of mintNFT that passed the argument check resolves
\* (returns or throws), uploading is false, loadingStep is empty and
\* loadingProgress is 0; a failed invocation leaves error non-empty and sets
\* neither mintedNftInfo nor success; success and error are never both set.
C38_IdleAfterResolution ==
    [][ /\ \A a \in Attempts :
              ( /\ Stepped(a)
                /\ calls[a].pc # "idle"
                /\ calls'[a].pc \in {"returned", "thrown"} ) =>
                  /\ uploading' = FALSE
                  /\ loadingStep' = ""
                  /\ loadingProgress' = 0
                  /\ calls'[a].pc = "thrown" =>
                        /\ error' # <<>>
                        /\ UNCHANGED <<mintedNftInfo, success>>
        /\ ~(success' # "" /\ error' # <<>>)
      ]_allvars
====
